---------------------------- MODULE Spec2Model ----------------------------
(***************************************************************************)
(* A model of ITSCube (src/src/itscube.py): the deduplication of granule   *)
(* URLs (skip_duplicate_granules), the per-granule normalizer              *)
(* (preprocess_dataset), the layer accumulator (add_layer, clear_vars),    *)
(* the cube assembler (combine_layers, process_v_attributes) and the four  *)
(* orchestrators (create, create_parallel, create_from_local_no_api,       *)
(* create_from_local_parallel_no_api).                                     *)
(*                                                                         *)
(* A granule URL is a record [dir, tokens]: dir is the directory part of   *)
(* the path, tokens the '_'-separated tokens of the basename (Python index *)
(* i is TLA+ index i+1).  Dates are the integers YYYYMMDD, whose order is  *)
(* the order of the datetime values strptime('%Y%m%d') returns.            *)
(***************************************************************************)
EXTENDS Integers, Sequences, FiniteSets, TLC

VARIABLES
    \* ---- skip_duplicate_granules (one call, stepped through its loop)
    found_urls,               \* the argument of the call: the candidate URLs
    url_idx,                  \* position of the for loop over found_urls
    keep_urls,                \* the dict keep_urls, in insertion order
    skipped_double_granules,  \* self.skipped_double_granules
    num_urls_from_api,        \* self.num_urls_from_api (NoneVal = None)
    granules,                 \* the list the call returns
    dpc,                      \* "idle" | "loop" | "collect" | "done"
    ncall,                    \* number of calls started by the caller
    first_granules,           \* what the first call returned (the caller's local)
    first_skipped,            \* skipped_double_granules as the first call left it
    \* ---- the orchestrators
    orchestrator,             \* the method that runs
    NUM_GRANULES_TO_WRITE,    \* ITSCube.NUM_GRANULES_TO_WRITE
    pc,                       \* where the orchestrator is
    pos,                      \* position of the for loop over the deduplicated list
    start,                    \* start (parallel orchestrators)
    num_to_process,           \* num_to_process (parallel orchestrators)
    num_tasks,                \* num_tasks of the batch under way
    results,                  \* what the tasks of the batch have returned
    is_first_write,           \* the local is_first_write
    self_dates,               \* self.dates
    self_ds,                  \* self.ds
    self_urls,                \* self.urls
    skipped_empty_granules,   \* self.skipped_empty_granules
    skipped_proj_granules,    \* self.skipped_proj_granules
    layers,                   \* self.layers
    store,                    \* the Zarr store at the destination
    fatal                     \* the exception that ended the run ("" = none)

dedup_vars == <<found_urls, url_idx, keep_urls, skipped_double_granules,
                num_urls_from_api, granules, dpc, ncall, first_granules,
                first_skipped>>

\* the variables only the stepped call of skip_duplicate_granules uses
dedup_only == <<url_idx, keep_urls, dpc, ncall, first_granules, first_skipped>>

cube_vars == <<orchestrator, NUM_GRANULES_TO_WRITE, pc, pos, start, num_to_process,
               num_tasks, results, is_first_write, self_dates, self_ds, self_urls,
               skipped_empty_granules, skipped_proj_granules, layers, store, fatal>>

vars == <<dedup_vars, cube_vars>>

\* None of Python, for an integer-valued field
NoneVal == -1

(***************************************************************************)
(* Bounds                                                                  *)
(***************************************************************************)
\* longest list of candidate URLs handed to skip_duplicate_granules
MaxUrls == 3
\* longest list of candidate URLs handed to an orchestrator
MaxGranules == 3

\* ---------------------------------------------------------------- helpers
RECURSIVE Concat(_)
Concat(ss) == IF ss = <<>> THEN <<>> ELSE Head(ss) \o Concat(Tail(ss))

Range(s) == {s[i] : i \in 1..Len(s)}

\* F applied to the value of x, which is evaluated once
Bind(x, F(_)) == CHOOSE r \in {F(val) : val \in {x}} : TRUE

SeqsUpTo(S, n) == UNION {[1..k -> S] : k \in 0..n}

\* number of positions of s holding x
Count(s, x) == Cardinality({i \in 1..Len(s) : s[i] = x})

\* the permutations of a sequence, as sequences
PermsOf(s) ==
    {[i \in 1..Len(s) |-> s[p[i]]] :
        p \in {q \in [1..Len(s) -> 1..Len(s)] : \A i, j \in 1..Len(s) : q[i] = q[j] => i = j}}

(***************************************************************************)
(* Granule URLs                                                            *)
(***************************************************************************)
\* LC08_L1TP_<pathrow1>_<acq1>_<proc1>_01_T1_X_LC08_L1TP_<pathrow2>_<acq2>_<proc2>_01_T1_G0240V01_P038.nc
MkUrl(dir, path_row_1, acq_1, proc_1, path_row_2, acq_2, proc_2) ==
    [dir    |-> dir,
     tokens |-> <<"LC08", "L1TP", path_row_1, acq_1, proc_1, "01", "T1", "X",
                  "LC08", "L1TP", path_row_2, acq_2, proc_2, "01", "T1",
                  "G0240V01", "P038.nc">>]

ProcDates == {20200101, 20200201}
PathRows  == {"011002", "012003"}
Dirs      == {"32628", "32629"}

\* the candidate URLs of the deduplication runs: two physical pairs, every
\* combination of two processing dates on each image, two directories
DedupUrls ==
    {MkUrl(d, pr, 20150821, p1, pr, 20150720, p2) :
        d \in Dirs, pr \in PathRows, p1 \in ProcDates, p2 \in ProcDates}

(***************************************************************************)
(* get_tokens_from_filename                                                *)
(***************************************************************************)
get_tokens_from_filename(filename) ==
    LET url_tokens == filename.tokens IN
    [acq_date_1  |-> url_tokens[4],
     proc_date_1 |-> url_tokens[5],
     path_row_1  |-> url_tokens[3],
     acq_date_2  |-> url_tokens[12],
     proc_date_2 |-> url_tokens[13],
     path_row_2  |-> url_tokens[11]]

\* '_'.join([acq_1, path_row_1, acq_2, path_row_2]): the tokens hold no '_',
\* so the joined string and the tuple identify each other
granule_id_of(each_url) ==
    LET t == get_tokens_from_filename(each_url) IN
    <<t.acq_date_1, t.path_row_1, t.acq_date_2, t.path_row_2>>

(***************************************************************************)
(* skip_duplicate_granules: the body of the loop                           *)
(***************************************************************************)
\* position of granule_id in the dict keep_urls, 0 when it is no key
KeyIndex(keep, granule_id) ==
    IF \E k \in 1..Len(keep) : keep[k].id = granule_id
    THEN CHOOSE k \in 1..Len(keep) : keep[k].id = granule_id
    ELSE 0

\* both processing dates identical
IdenticalProcNever(each_url, found_url) == FALSE
IdenticalProc(each_url, found_url) ==
    LET u == get_tokens_from_filename(each_url)
        f == get_tokens_from_filename(found_url) IN
    u.proc_date_1 = f.proc_date_1 /\ u.proc_date_2 = f.proc_date_2

\* the first for loop: keep_found_url
keep_found_url(kept, each_url) ==
    \E i \in 1..Len(kept) : IdenticalProc(each_url, kept[i])

\* the if / elif of the second for loop: found_url is to be removed
IsOlderDominanceOnly(each_url, found_url) ==
    LET u == get_tokens_from_filename(each_url)
        f == get_tokens_from_filename(found_url) IN
    u.proc_date_1 >= f.proc_date_1 /\ u.proc_date_2 >= f.proc_date_2
IsOlderStrict(each_url, found_url) ==
    LET u == get_tokens_from_filename(each_url)
        f == get_tokens_from_filename(found_url) IN
    \/ u.proc_date_1 > f.proc_date_1 /\ u.proc_date_2 > f.proc_date_2
    \/ u.proc_date_1 > f.proc_date_1
IsOlder(each_url, found_url) ==
    LET u == get_tokens_from_filename(each_url)
        f == get_tokens_from_filename(found_url) IN
    \/ u.proc_date_1 >= f.proc_date_1 /\ u.proc_date_2 >= f.proc_date_2
    \/ u.proc_date_1 > f.proc_date_1

remove_urls_of(kept, each_url) ==
    SelectSeq(kept, LAMBDA found_url : IsOlder(each_url, found_url))

\* keep_urls[granule_id][:] = [each ... if each not in remove_urls]; append(each_url)
ReplaceKept(kept, remove_urls, each_url) ==
    Append(SelectSeq(kept, LAMBDA each : each \notin Range(remove_urls)), each_url)

\* a variant of NewKey that puts the new key before the keys of the dict
NewKeyFirst(keep, each_url) ==
    <<[id |-> granule_id_of(each_url), urls |-> <<each_url>>]>> \o keep

\* the branch for a new granule_id: keep_urls.setdefault(granule_id, []).append(each_url)
NewKey(keep, each_url) ==
    Append(keep, [id |-> granule_id_of(each_url), urls |-> <<each_url>>])

\* a variant of DedupStep that does not record the identifier it discards
DedupStepUnlogged(st, each_url) ==
    LET k == KeyIndex(st.keep, granule_id_of(each_url)) IN
    IF k = 0
    THEN [st EXCEPT !.keep = NewKey(@, each_url)]
    ELSE LET kept == st.keep[k].urls IN
         IF keep_found_url(kept, each_url)
         THEN [st EXCEPT !.keep[k].urls = Append(@, each_url)]
         ELSE LET remove_urls == remove_urls_of(kept, each_url) IN
              IF Len(remove_urls) > 0
              THEN [st EXCEPT !.skipped = @ \o remove_urls,
                              !.keep[k].urls = ReplaceKept(@, remove_urls, each_url)]
              ELSE st

\* st = [keep |-> keep_urls, skipped |-> skipped_double_granules]
DedupStepKeepsOlder(st, each_url) ==
    LET k == KeyIndex(st.keep, granule_id_of(each_url)) IN
    IF k = 0
    THEN [st EXCEPT !.keep = NewKey(@, each_url)]
    ELSE LET kept == st.keep[k].urls IN
         IF keep_found_url(kept, each_url)
         THEN [st EXCEPT !.keep[k].urls = Append(@, each_url)]
         ELSE LET remove_urls == remove_urls_of(kept, each_url) IN
              [st EXCEPT !.skipped = @ \o remove_urls,
                         !.keep[k].urls = ReplaceKept(@, remove_urls, each_url)]
DedupStep(st, each_url) ==
    LET k == KeyIndex(st.keep, granule_id_of(each_url)) IN
    IF k = 0
    THEN [st EXCEPT !.keep = NewKey(@, each_url)]
    ELSE LET kept == st.keep[k].urls IN
         IF keep_found_url(kept, each_url)
         THEN [st EXCEPT !.keep[k].urls = Append(@, each_url)]
         ELSE LET remove_urls == remove_urls_of(kept, each_url) IN
              IF Len(remove_urls) > 0
              THEN [st EXCEPT !.skipped = @ \o remove_urls,
                              !.keep[k].urls = ReplaceKept(@, remove_urls, each_url)]
              ELSE [st EXCEPT !.skipped = Append(@, each_url)]

\* granules = []; for each in keep_urls.values(): granules.extend(each)
CollectGranulesReversed(keep) ==
    Concat([k \in 1..Len(keep) |-> keep[Len(keep) + 1 - k].urls])
CollectGranules(keep) ==
    Concat([k \in 1..Len(keep) |-> keep[k].urls])

\* the whole call, as a function of its argument
RECURSIVE DedupLoop(_, _)
DedupLoop(st, urls) ==
    IF urls = <<>> THEN st
    ELSE Bind(DedupStep(st, Head(urls)), LAMBDA nxt : DedupLoop(nxt, Tail(urls)))

skip_duplicate_granules(urls) ==
    LET st == DedupLoop([keep |-> <<>>, skipped |-> <<>>], urls) IN
    [granules |-> CollectGranules(st.keep),
     skipped_double_granules |-> st.skipped,
     num_urls_from_api |-> Len(urls)]

(***************************************************************************)
(* Granule files.  A dataset (xarray.Dataset) is a record                  *)
(*   [vars  : name -> [attrs : name -> value, data : value],               *)
(*    attrs : name -> value,  x, y : the coordinate values,                *)
(*    valid : the cells <<x, y>> where v is not null].                     *)
(* The data of a spatial variable of granule id is the number              *)
(* Val(id, name, 0); NaN stands for an array holding only NaN.  A date     *)
(* string is the sequence of its 'T'-separated tokens, as numbers:         *)
(* "20150805" is <<20150805>>, "20150821T10:30:05" is                      *)
(* <<20150821, <<10, 30, 5>>>> and the malformed                           *)
(* "20190215T205541T00:00:00" is <<20190215, 205541, <<0, 0, 0>>>>.        *)
(* date_dt is held in tenths of a day.                                     *)
(***************************************************************************)
\* a function with no argument: an empty dict
EmptyDict == [k \in {} |-> 0]
\* del d[k] / d without the key k
Without(d, k) == [a \in DOMAIN d \ {k} |-> d[a]]
\* None, for a field that holds an object
NoneObj == [none |-> TRUE]
\* None, for mid_date
NoneDate == <<>>

\* np.nan, as the content of a placeholder array (get_data_var)
NaN == -2
\* DataVars.MISSING_VALUE, DataVars.MISSING_BYTE
MISSING_VALUE == -32767
MISSING_BYTE == 0
\* ITSCube.CELL_SIZE, ITSCube.CHIP_SIZE_HEIGHT_NO_VALUE
CELL_SIZE == 240
CHIP_SIZE_HEIGHT_NO_VALUE == 65535

\* f'{var_name}_{suffix}' for the names combine_layers builds
JoinTable ==
    [
     vx |-> [error |-> "vx_error", error_mask |-> "vx_error_mask", error_modeled |-> "vx_error_modeled", error_slow |-> "vx_error_slow", stable_shift |-> "vx_stable_shift", stable_shift_slow |-> "vx_stable_shift_slow", stable_shift_mask |-> "vx_stable_shift_mask"],
     vy |-> [error |-> "vy_error", error_mask |-> "vy_error_mask", error_modeled |-> "vy_error_modeled", error_slow |-> "vy_error_slow", stable_shift |-> "vy_stable_shift", stable_shift_slow |-> "vy_stable_shift_slow", stable_shift_mask |-> "vy_stable_shift_mask"],
     va |-> [error |-> "va_error", error_mask |-> "va_error_mask", error_modeled |-> "va_error_modeled", error_slow |-> "va_error_slow", stable_shift |-> "va_stable_shift", stable_shift_slow |-> "va_stable_shift_slow", stable_shift_mask |-> "va_stable_shift_mask"],
     vr |-> [error |-> "vr_error", error_mask |-> "vr_error_mask", error_modeled |-> "vr_error_modeled", error_slow |-> "vr_error_slow", stable_shift |-> "vr_stable_shift", stable_shift_slow |-> "vr_stable_shift_slow", stable_shift_mask |-> "vr_stable_shift_mask"],
     vxp |-> [error |-> "vxp_error", error_mask |-> "vxp_error_mask", error_modeled |-> "vxp_error_modeled", error_slow |-> "vxp_error_slow", stable_shift |-> "vxp_stable_shift", stable_shift_slow |-> "vxp_stable_shift_slow", stable_shift_mask |-> "vxp_stable_shift_mask"],
     vyp |-> [error |-> "vyp_error", error_mask |-> "vyp_error_mask", error_modeled |-> "vyp_error_modeled", error_slow |-> "vyp_error_slow", stable_shift |-> "vyp_stable_shift", stable_shift_slow |-> "vyp_stable_shift_slow", stable_shift_mask |-> "vyp_stable_shift_mask"],
     vx_error |-> [description |-> "vx_error_description"],
     vx_error_mask |-> [description |-> "vx_error_mask_description"],
     vx_error_modeled |-> [description |-> "vx_error_modeled_description"],
     vx_error_slow |-> [description |-> "vx_error_slow_description"],
     vy_error |-> [description |-> "vy_error_description"],
     vy_error_mask |-> [description |-> "vy_error_mask_description"],
     vy_error_modeled |-> [description |-> "vy_error_modeled_description"],
     vy_error_slow |-> [description |-> "vy_error_slow_description"],
     va_error |-> [description |-> "va_error_description"],
     va_error_mask |-> [description |-> "va_error_mask_description"],
     va_error_modeled |-> [description |-> "va_error_modeled_description"],
     va_error_slow |-> [description |-> "va_error_slow_description"],
     vr_error |-> [description |-> "vr_error_description"],
     vr_error_mask |-> [description |-> "vr_error_mask_description"],
     vr_error_modeled |-> [description |-> "vr_error_modeled_description"],
     vr_error_slow |-> [description |-> "vr_error_slow_description"],
     vxp_error |-> [description |-> "vxp_error_description"],
     vxp_error_mask |-> [description |-> "vxp_error_mask_description"],
     vxp_error_modeled |-> [description |-> "vxp_error_modeled_description"],
     vxp_error_slow |-> [description |-> "vxp_error_slow_description"],
     vyp_error |-> [description |-> "vyp_error_description"],
     vyp_error_mask |-> [description |-> "vyp_error_mask_description"],
     vyp_error_modeled |-> [description |-> "vyp_error_modeled_description"],
     vyp_error_slow |-> [description |-> "vyp_error_slow_description"]
    ]
Join(a, b) == JoinTable[a][b]

VIndex == [v |-> 0, vx |-> 1, vy |-> 2, va |-> 3, vr |-> 4, vxp |-> 5, vyp |-> 6,
           v_error |-> 7, vp |-> 8, vp_error |-> 9, chip_size_height |-> 10,
           chip_size_width |-> 11, interp_mask |-> 12]
\* the n-th value kept by granule id for the variable var_name
Val(id, var_name, n) == id * 1000 + VIndex[var_name] * 20 + n

\* self.projection, self.x and self.y of the cube under construction
projection == "32628"
self_x == [min |-> 0, max |-> 480]
self_y == [min |-> 0, max |-> 480]

\* str(int(ds_projection))
StrOfInt(n) ==
    CASE n = 32628 -> "32628"
      [] n = 32629 -> "32629"
      [] OTHER -> "other"

\* a spatial variable without per-pair attributes
PlainVar(id, var_name) ==
    [attrs |-> [grid_mapping |-> "mapping"], data |-> Val(id, var_name, 0)]

\* v* variable of the current format: <v>_error, <v>_error_mask,
\* <v>_error_modeled, <v>_error_slow with a description each,
\* stable_count_slow, stable_count_mask, flag_stable_shift and the shifts
CurrentV(id, var_name) ==
    [attrs |->
        [grid_mapping |-> "mapping",
         stable_count_slow |-> Val(id, var_name, 2),
         stable_count_mask |-> Val(id, var_name, 3),
         flag_stable_shift |-> 1,
         flag_stable_shift_description |-> "flag",
         stable_shift |-> Val(id, var_name, 5),
         stable_shift_slow |-> Val(id, var_name, 6),
         stable_shift_mask |-> Val(id, var_name, 7)]
        @@ (Join(var_name, "error") :> Val(id, var_name, 9))
        @@ (Join(var_name, "error_mask") :> Val(id, var_name, 10))
        @@ (Join(var_name, "error_modeled") :> Val(id, var_name, 11))
        @@ (Join(var_name, "error_slow") :> Val(id, var_name, 12))
        @@ (Join(Join(var_name, "error"), "description") :> "granule text")
        @@ (Join(Join(var_name, "error_mask"), "description") :> "granule text")
        @@ (Join(Join(var_name, "error_modeled"), "description") :> "granule text")
        @@ (Join(Join(var_name, "error_slow"), "description") :> "granule text"),
     data |-> Val(id, var_name, 0)]

\* v* variable of the updated optical format: the current attributes and
\* stable_count of the older format
UpdatedV(id, var_name) ==
    [CurrentV(id, var_name) EXCEPT
        !.attrs = @ @@ [stable_count |-> Val(id, var_name, 1)]]

\* v* variable of the optical legacy format
LegacyV(id, var_name) ==
    [attrs |->
        [grid_mapping |-> "mapping",
         stable_count |-> Val(id, var_name, 1),
         stable_rmse |-> Val(id, var_name, 8),
         stable_shift |-> Val(id, var_name, 5),
         stable_shift_applied |-> 1,
         stable_apply_date |-> 20200101],
     data |-> Val(id, var_name, 0)]

\* img_pair_info of a granule: the attributes of DataVars.ImgPairInfo.ALL
ImgPairInfo(id, date_center, date_dt) ==
    [attrs |->
        [mission_img1 |-> "L", sensor_img1 |-> "C", satellite_img1 |-> "8.",
         mission_img2 |-> "L", sensor_img2 |-> "C", satellite_img2 |-> "8.",
         date_dt |-> date_dt,
         date_center |-> <<date_center>>,
         roi_valid_percentage |-> id,
         autoRIFT_software_version |-> "1.0.7"],
     data |-> 0]

Mapping(epsg) ==
    [attrs |-> [spatial_epsg |-> epsg, grid_mapping_name |-> "universal_transverse_mercator"],
     data |-> 0]

GridIn == <<0, 240, 480>>
GridOut == <<2400, 2640, 2880>>
AllCells(xs, ys) == {<<xs[i], ys[j]>> : i \in 1..Len(xs), j \in 1..Len(ys)}

\* what every granule holds
BaseGranule(id, epsg, date_center, date_dt, xs, ys, cells) ==
    [vars |->
        [mapping |-> Mapping(epsg),
         img_pair_info |-> ImgPairInfo(id, date_center, date_dt),
         chip_size_width |-> PlainVar(id, "chip_size_width"),
         interp_mask |-> PlainVar(id, "interp_mask")],
     attrs |-> EmptyDict,
     x |-> xs, y |-> ys, valid |-> cells]

WithVars(g, more) == [g EXCEPT !.vars = @ @@ more]

\* current format
CurrentGranule(id, epsg, date_center, date_dt, xs, ys, cells) ==
    WithVars(BaseGranule(id, epsg, date_center, date_dt, xs, ys, cells),
        [v |-> PlainVar(id, "v"),
         v_error |-> PlainVar(id, "v_error"),
         vx |-> CurrentV(id, "vx"),
         vy |-> CurrentV(id, "vy"),
         chip_size_height |-> PlainVar(id, "chip_size_height")])

\* updated optical format: v carries map_scale_corrected, vx and vy carry
\* stable_count besides the current attributes
UpdatedGranule(id, date_center, date_dt) ==
    WithVars(BaseGranule(id, 32628, date_center, date_dt, GridIn, GridIn,
                         AllCells(GridIn, GridIn)),
        [v |-> [PlainVar(id, "v") EXCEPT !.attrs = @ @@ [map_scale_corrected |-> 1]],
         v_error |-> PlainVar(id, "v_error"),
         vx |-> UpdatedV(id, "vx"),
         vy |-> UpdatedV(id, "vy"),
         chip_size_height |-> PlainVar(id, "chip_size_height")])

\* optical legacy format: no v_error, chip_size_height not set, stable_rmse
\* in place of vx_error / vy_error
LegacyGranule(id, date_center, date_dt) ==
    WithVars(BaseGranule(id, 32628, date_center, date_dt, GridIn, GridIn,
                         AllCells(GridIn, GridIn)),
        [v |-> [PlainVar(id, "v") EXCEPT !.attrs = @ @@ [map_scale_corrected |-> 1]],
         vx |-> LegacyV(id, "vx"),
         vy |-> LegacyV(id, "vy"),
         chip_size_height |->
            [attrs |-> [grid_mapping |-> "mapping"], data |-> CHIP_SIZE_HEIGHT_NO_VALUE]])

\* radar format: the current format and va, vr, vxp, vyp, vp, vp_error
RadarGranule(id, date_center, date_dt) ==
    WithVars(CurrentGranule(id, 32628, date_center, date_dt, GridIn, GridIn,
                            AllCells(GridIn, GridIn)),
        [va |-> CurrentV(id, "va"),
         vr |-> CurrentV(id, "vr"),
         vxp |-> CurrentV(id, "vxp"),
         vyp |-> CurrentV(id, "vyp"),
         vp |-> PlainVar(id, "vp"),
         vp_error |-> PlainVar(id, "vp_error")])

\* the granules of the runs, by URL
UrlCurrent    == MkUrl("32628", "011002", 20150821, 20200201, "011002", 20150720, 20200201)
UrlCurrentOld == MkUrl("32628", "011002", 20150821, 20200101, "011002", 20150720, 20200101)
UrlUpdated    == MkUrl("32628", "012003", 20150720, 20200201, "012003", 20150618, 20200201)
UrlLegacy     == MkUrl("32628", "013004", 20150618, 20200201, "013004", 20150517, 20200201)
UrlOtherProj  == MkUrl("32628", "014005", 20150821, 20200201, "014005", 20150720, 20200201)
UrlOutside    == MkUrl("32628", "015006", 20150821, 20200201, "015006", 20150720, 20200201)
UrlNoData     == MkUrl("32628", "016007", 20150821, 20200201, "016007", 20150720, 20200201)
UrlRadar      == MkUrl("32628", "017008", 20150922, 20200201, "017008", 20150821, 20200201)
UrlCoarse     == MkUrl("32628", "018009", 20150821, 20200201, "018009", 20150720, 20200201)
UrlTall       == MkUrl("32628", "019010", 20150821, 20200201, "019010", 20150720, 20200201)
UrlUtm        == MkUrl("32628", "020011", 20150821, 20200201, "020011", 20150720, 20200201)
UrlOtherName  == MkUrl("32628", "021012", 20150821, 20200201, "021012", 20150720, 20200201)
UrlOtherProjOld == MkUrl("32628", "014005", 20150821, 20200101, "014005", 20150720, 20200101)
UrlOtherGrid  == MkUrl("32628", "022013", 20150821, 20200201, "022013", 20150720, 20200201)
UrlRunA       == MkUrl("32628", "023014", 20150821, 20200201, "023014", 20150720, 20200201)
UrlRunB       == MkUrl("32628", "024015", 20150821, 20200201, "024015", 20150720, 20200201)
UrlRunTai1    == MkUrl("32628", "027018", 20150821, 20200201, "027018", 20150720, 20200201)
UrlRunTai2    == MkUrl("32628", "028019", 20150821, 20200201, "028019", 20150720, 20200201)
UrlPolar      == MkUrl("32628", "025016", 20150821, 20200201, "025016", 20150720, 20200201)
UrlNoProj     == MkUrl("32628", "026017", 20150821, 20200201, "026017", 20150720, 20200201)

\* a grid of cells twice as wide as CELL_SIZE
GridCoarse == <<0, 480>>

\* a granule of the older generation: the projection is held by the variable
\* UTM_Projection, and there is no variable mapping
UtmGranule(id, date_center, date_dt) ==
    LET g == CurrentGranule(id, 32628, date_center, date_dt, GridIn, GridIn,
                            AllCells(GridIn, GridIn)) IN
    [g EXCEPT !.vars = Without(@, "mapping") @@ [UTM_Projection |-> Mapping(32628)]]

\* a granule of an older schema, with Polar_Stereographic for the projection
PolarGranule(id, date_center, date_dt) ==
    LET g == CurrentGranule(id, 32628, date_center, date_dt, GridIn, GridIn,
                            AllCells(GridIn, GridIn)) IN
    [g EXCEPT !.vars = Without(@, "mapping") @@ [Polar_Stereographic |-> Mapping(32628)]]

\* a file without a projection variable
NoProjGranule(id, date_center, date_dt) ==
    LET g == CurrentGranule(id, 32628, date_center, date_dt, GridIn, GridIn,
                            AllCells(GridIn, GridIn)) IN
    [g EXCEPT !.vars = Without(@, "mapping")]

\* a granule of the current format that also carries what its processing
\* run was: the parameter file of autoRIFT among the attributes of the
\* dataset, the time standard of each image among those of img_pair_info
RunGranule(id, parameter_file, standard_img1, standard_img2) ==
    LET g == CurrentGranule(id, 32628, 20150805, 320, GridIn, GridIn,
                            AllCells(GridIn, GridIn)) IN
    [g EXCEPT !.attrs = [autoRIFT_parameter_file |-> parameter_file],
              !.vars.img_pair_info.attrs =
                  @ @@ [time_standard_img1 |-> standard_img1,
                        time_standard_img2 |-> standard_img2]]

\* xr.open_dataset(url)
open_dataset(url) ==
    CASE url = UrlCurrent ->
            CurrentGranule(1, 32628, 20150805, 325, GridIn, GridIn, AllCells(GridIn, GridIn))
      [] url = UrlCurrentOld ->
            CurrentGranule(2, 32628, 20150805, 325, GridIn, GridIn, AllCells(GridIn, GridIn))
      [] url = UrlUpdated -> UpdatedGranule(3, 20150704, 320)
      [] url = UrlLegacy -> LegacyGranule(4, 20150602, 320)
      [] url = UrlOtherProj ->
            CurrentGranule(5, 32629, 20150805, 320, GridIn, GridIn, AllCells(GridIn, GridIn))
      [] url = UrlOutside ->
            CurrentGranule(6, 32628, 20150805, 320, GridOut, GridIn, AllCells(GridOut, GridIn))
      [] url = UrlNoData ->
            CurrentGranule(7, 32628, 20150805, 320, GridIn, GridIn, {})
      [] url = UrlRadar -> RadarGranule(8, 20150906, 320)
      [] url = UrlCoarse ->
            CurrentGranule(9, 32628, 20150805, 320, GridCoarse, GridIn,
                           AllCells(GridCoarse, GridIn))
      [] url = UrlTall ->
            CurrentGranule(10, 32628, 20150805, 320, GridIn, GridCoarse,
                           AllCells(GridIn, GridCoarse))
      [] url = UrlUtm -> UtmGranule(11, 20150805, 320)
      [] url = UrlPolar -> PolarGranule(16, 20150805, 320)
      [] url = UrlNoProj -> NoProjGranule(17, 20150805, 320)
      [] url = UrlOtherName ->
            [CurrentGranule(12, 32628, 20150805, 320, GridIn, GridIn, AllCells(GridIn, GridIn))
                EXCEPT !.vars.mapping.attrs.grid_mapping_name = "polar_stereographic"]
      [] url = UrlOtherGrid ->
            [CurrentGranule(18, 32628, 20150805, 320, GridIn, GridIn, AllCells(GridIn, GridIn))
                EXCEPT !.vars.v.attrs.grid_mapping = "UTM_Projection"]
      [] url = UrlRunA -> RunGranule(19, "autoRIFT_landsat_0120m.shp", "UTC", "UTC")
      [] url = UrlRunB -> RunGranule(20, "autoRIFT_landsat_0240m.shp", "UTC", "UTC")
      [] url = UrlRunTai1 -> RunGranule(21, "autoRIFT_landsat_0120m.shp", "TAI", "UTC")
      [] url = UrlRunTai2 -> RunGranule(22, "autoRIFT_landsat_0120m.shp", "UTC", "TAI")
      [] url = UrlOtherProjOld ->
            CurrentGranule(13, 32629, 20150805, 320, GridIn, GridIn, AllCells(GridIn, GridIn))

(***************************************************************************)
(* get_data_var, get_data_var_attr                                         *)
(***************************************************************************)
\* the variable of the dataset, or an array of NaN on the grid of the cube
get_data_var(ds, var_name) ==
    IF var_name \in DOMAIN ds.vars
    THEN ds.vars[var_name]
    ELSE [attrs |-> EmptyDict, data |-> NaN]

\* datetime.strptime of a date string, by its number of 'T'-separated tokens
ToDate(value) ==
    IF Len(value) = 3
    THEN [ymd |-> value[1],
          hms |-> <<value[2] \div 10000, (value[2] \div 100) % 100, value[2] % 100>>]
    ELSE IF Len(value) = 1
    THEN [ymd |-> value[1], hms |-> <<0, 0, 0>>]
    ELSE [ymd |-> value[1], hms |-> value[2]]

HasAttr(ds, var_name, attr_name) ==
    var_name \in DOMAIN ds.vars /\ attr_name \in DOMAIN ds.vars[var_name].attrs

\* [error, value]: the attribute, missing_value when it is absent, and an
\* error when it is absent and no missing_value is given (expected = TRUE)
get_data_var_attr(ds, var_name, attr_name, missing_value, expected, to_date) ==
    IF HasAttr(ds, var_name, attr_name)
    THEN [error |-> FALSE,
          value |-> IF to_date THEN ToDate(ds.vars[var_name].attrs[attr_name])
                               ELSE ds.vars[var_name].attrs[attr_name]]
    ELSE IF expected
    THEN [error |-> TRUE, value |-> missing_value]
    ELSE [error |-> FALSE, value |-> missing_value]

(***************************************************************************)
(* preprocess_dataset                                                      *)
(***************************************************************************)
InBounds(coord, bounds) ==
    SelectSeq(coord, LAMBDA c : c >= bounds.min /\ c <= bounds.max)

Abs(n) == IF n < 0 THEN -n ELSE n

\* ds.where(mask_lon & mask_lat, drop=True)
Cropped(ds) ==
    LET xs == InBounds(ds.x, self_x)
        ys == InBounds(ds.y, self_y) IN
    [ds EXCEPT !.x = xs, !.y = ys,
               !.valid = {c \in @ : c[1] \in Range(xs) /\ c[2] \in Range(ys)}]

\* [error, empty, projection, mid_date, url, data]
preprocess_dataset(ds, ds_url) ==
    IF "mapping" \notin DOMAIN ds.vars
    THEN [error |-> "unsupported projection", empty |-> FALSE, projection |-> NoneVal,
          mid_date |-> NoneDate, url |-> ds_url, data |-> NoneObj]
    ELSE
    LET ds_projection == ds.vars.mapping.attrs.spatial_epsg
        info == ds.vars.img_pair_info.attrs
        mid_date == <<info.date_center[1], info.date_dt \div 10>>
        mask_data == Cropped(ds)
        rejected(is_empty) ==
            [error |-> "", empty |-> is_empty, projection |-> ds_projection,
             mid_date |-> NoneDate, url |-> ds_url, data |-> NoneObj]
    IN
    IF StrOfInt(ds_projection) # projection THEN rejected(FALSE)
    ELSE IF Len(mask_data.x) = 0 \/ Len(mask_data.y) = 0 THEN rejected(TRUE)
    ELSE IF mask_data.valid = {} THEN rejected(TRUE)
    ELSE IF Len(mask_data.x) < 2
    THEN [rejected(FALSE) EXCEPT !.error = "index error"]
    ELSE IF Abs(mask_data.x[1] - mask_data.x[2]) # CELL_SIZE
    THEN [rejected(FALSE) EXCEPT !.error = "unexpected grid cell size"]
    ELSE [error |-> "", empty |-> FALSE, projection |-> ds_projection,
          mid_date |-> mid_date, url |-> ds_url, data |-> mask_data]

(***************************************************************************)
(* add_layer: acc = [dates, ds, urls, skipped_empty_granules,              *)
(* skipped_proj_granules]                                                  *)
(***************************************************************************)
add_layer(acc, res) ==
    IF res.data # NoneObj
    THEN [acc EXCEPT !.dates = Append(@, res.mid_date),
                     !.ds = Append(@, res.data),
                     !.urls = Append(@, res.url)]
    ELSE IF res.empty
    THEN [acc EXCEPT !.skipped_empty_granules = Append(@, res.url)]
    ELSE [acc EXCEPT !.skipped_proj_granules =
            IF res.projection \in DOMAIN @
            THEN [@ EXCEPT ![res.projection] = Append(@, res.url)]
            ELSE @ @@ (res.projection :> <<res.url>>)]

(***************************************************************************)
(* combine_layers: the unified batch.  self.layers is a function from the  *)
(* names of its variables to [dims, data, attrs]; data holds one value per *)
(* record for the variables on the mid_date axis.  The state threaded      *)
(* through the steps is st = [error, layers, attrs, new_v_vars, dropped];  *)
(* dropped holds the variables that drop_vars has taken out of the         *)
(* datasets of self.ds.  A step leaves a state with an error as it is.     *)
(* The coordinates x and y (the grid of the cube, the same in every batch) *)
(* and the attributes title, author, institution, date_created,            *)
(* date_updated, longitude and latitude are left out.                      *)
(***************************************************************************)
Spatial(arrays) ==
    [dims |-> "mid_date,y,x",
     data |-> [i \in 1..Len(arrays) |-> arrays[i].data],
     attrs |-> arrays[1].attrs]

\* xr.concat(arrays, mid_date_coord): the attributes of the first array
xr_concat(arrays) == Spatial(arrays)

RecordVar(values, attrs) == [dims |-> "mid_date", data |-> values, attrs |-> attrs]

HasVar(st, name) == name \in DOMAIN st.layers
\* self.layers[name] = var (Dataset.__setitem__): the assigned array comes
\* with its coordinates, and they replace those of the dataset.  An array on
\* the record axis carries mid_date_coord, pd.Index(self.dates) without
\* attributes, so the mid_date coordinate of the dataset loses its
\* attributes (lines 1563-1565); the scalar mapping has no coordinates.
SetVar(st, name, var) ==
    LET assigned == (name :> var) @@ st.layers IN
    [st EXCEPT !.layers =
        IF var.dims \in {"mid_date", "mid_date,y,x"}
        THEN [assigned EXCEPT !.mid_date.attrs = EmptyDict]
        ELSE assigned]
SetVarAttr(st, name, k, val) == [st EXCEPT !.layers[name].attrs = (k :> val) @@ @]
DelVarAttr(st, name, k) == [st EXCEPT !.layers[name].attrs = Without(@, k)]
Fail(st, msg) == [st EXCEPT !.error = msg]

\* set_grid_mapping_attr
set_grid_mapping_attr(st0, var_name, ds_grid_mapping_value) ==
    Bind(st0, LAMBDA st :
        IF "grid_mapping" \in DOMAIN st.layers[var_name].attrs
        THEN st
        ELSE SetVarAttr(st, var_name, "grid_mapping", ds_grid_mapping_value))

\* _attrs of process_v_attributes: the descriptions by prefix and by name
GenericDescription ==
    [error_mask |-> "RMSE over stable surfaces, stationary or slow-flowing surfaces with velocity < 15 m/yr identified from an external mask",
     error_slow |-> "RMSE over slowest 25% of retrieved velocities",
     error_modeled |-> "1-sigma error calculated using a modeled error-dt relationship"]
SpecificDescription ==
    [vx_error |-> "error for velocity component in x direction",
     vy_error |-> "error for velocity component in y direction",
     va_error |-> "error for velocity in radar azimuth direction",
     vr_error |-> "error for velocity in radar range direction",
     vxp_error |-> "error for x-direction velocity determined by projecting radar range measurements onto an a priori flow vector",
     vyp_error |-> "error for y-direction velocity determined by projecting radar range measurements onto an a priori flow vector"]

_v_comp_attrs == <<"error", "error_mask", "error_modeled", "error_slow">>
_stable_rmse_vars == {"vx", "vy"}

\* lines 859-869: attributes of the older format that reached the cube variable
DropLegacyAttrs(st0, var_name) ==
    Bind(st0, LAMBDA st :
        DelVarAttr(DelVarAttr(DelVarAttr(st, var_name, "stable_apply_date"),
                              var_name, "map_scale_corrected"),
                   var_name, "stable_shift_applied"))

\* lines 873-929: one pass of the loop over _v_comp_attrs
ErrorVar(st0, ds_list, var_name, each_prefix) ==
    Bind(st0, LAMBDA st :
        LET error_name == Join(var_name, each_prefix)
            error_name_desc == Join(error_name, "description")
            error_data ==
                [i \in 1..Len(ds_list) |->
                    IF var_name \in _stable_rmse_vars
                    THEN IF error_name \in DOMAIN ds_list[i].vars[var_name].attrs
                         THEN get_data_var_attr(ds_list[i], var_name, error_name,
                                                MISSING_VALUE, FALSE, FALSE).value
                         ELSE get_data_var_attr(ds_list[i], var_name, "stable_rmse",
                                                MISSING_VALUE, FALSE, FALSE).value
                    ELSE get_data_var_attr(ds_list[i], var_name, error_name,
                                           MISSING_VALUE, FALSE, FALSE).value]
            desc_str ==
                IF HasAttr(ds_list[1], var_name, error_name_desc)
                THEN ds_list[1].vars[var_name].attrs[error_name_desc]
                ELSE IF each_prefix \in DOMAIN GenericDescription
                THEN GenericDescription[each_prefix]
                ELSE SpecificDescription[error_name]
            s1 == IF var_name \in _stable_rmse_vars
                  THEN DelVarAttr(st, var_name, "stable_rmse") ELSE st
            s2 == SetVar(s1, error_name,
                         RecordVar(error_data,
                                   [units |-> "m/y", standard_name |-> error_name,
                                    description |-> desc_str]))
        IN [DelVarAttr(DelVarAttr(s2, var_name, error_name), var_name, error_name_desc)
                EXCEPT !.new_v_vars = Append(@, error_name)])

\* lines 933-991: stable_count, stable_count_slow, stable_count_mask, each
\* captured once, when the first dataset of the batch carries it; every
\* dataset of the batch is then expected to carry it
CountVar(st0, ds_list, var_name, attr_name) ==
    Bind(st0, LAMBDA st :
        IF st.error # "" THEN st
        ELSE
        LET got == [i \in 1..Len(ds_list) |->
                       get_data_var_attr(ds_list[i], var_name, attr_name, NoneVal, TRUE, FALSE)]
            s1 == IF ~HasVar(st, attr_name) /\ HasAttr(ds_list[1], var_name, attr_name)
                  THEN IF \E i \in 1..Len(ds_list) : got[i].error
                       THEN Fail(st, "attribute is expected")
                       ELSE SetVar(st, attr_name,
                                   RecordVar([i \in 1..Len(ds_list) |-> got[i].value],
                                             [units |-> "count", standard_name |-> attr_name]))
                  ELSE st
        IN IF s1.error # "" THEN s1 ELSE DelVarAttr(s1, var_name, attr_name))

\* lines 997-1017: flag_stable_shift, 0.0 where the attribute is absent
missing_stable_shift_value == 0
FlagVar(st0, ds_list, var_name) ==
    Bind(st0, LAMBDA st :
        IF st.error # "" THEN st
        ELSE
        LET s1 == IF ~HasVar(st, "flag_stable_shift") /\ var_name \in DOMAIN ds_list[1].vars
                  THEN SetVar(st, "flag_stable_shift",
                         RecordVar([i \in 1..Len(ds_list) |->
                                       get_data_var_attr(ds_list[i], var_name, "flag_stable_shift",
                                           missing_stable_shift_value, FALSE, FALSE).value],
                                   [standard_name |-> "flag_stable_shift"]))
                  ELSE st
        IN DelVarAttr(DelVarAttr(s1, var_name, "flag_stable_shift"),
                      var_name, "flag_stable_shift_description"))

\* lines 1021-1076: <var_name>_stable_shift, _stable_shift_slow, _stable_shift_mask
ShiftVar(st0, ds_list, var_name, attr_name) ==
    Bind(st0, LAMBDA st :
        IF st.error # "" THEN st
        ELSE
        LET shift_var_name == Join(var_name, attr_name)
            s1 == SetVar(st, shift_var_name,
                    RecordVar([i \in 1..Len(ds_list) |->
                                  get_data_var_attr(ds_list[i], var_name, attr_name,
                                                    MISSING_VALUE, FALSE, FALSE).value],
                              [units |-> "m/y", standard_name |-> shift_var_name]))
        IN [DelVarAttr(s1, var_name, attr_name) EXCEPT !.new_v_vars = Append(@, shift_var_name)])

\* for each_prefix in _v_comp_attrs
RECURSIVE ErrorVars(_, _, _, _)
ErrorVars(st0, ds_list, var_name, k) ==
    IF k > Len(_v_comp_attrs) THEN st0
    ELSE Bind(ErrorVar(st0, ds_list, var_name, _v_comp_attrs[k]),
              LAMBDA st : ErrorVars(st, ds_list, var_name, k + 1))

\* the three blocks of lines 933-991, in their order
_count_attrs == <<"stable_count", "stable_count_slow", "stable_count_mask">>
RECURSIVE CountVars(_, _, _, _)
CountVars(st0, ds_list, var_name, k) ==
    IF k > Len(_count_attrs) THEN st0
    ELSE Bind(CountVar(st0, ds_list, var_name, _count_attrs[k]),
              LAMBDA st : CountVars(st, ds_list, var_name, k + 1))

\* the three blocks of lines 1021-1076, in their order
_shift_attrs == <<"stable_shift", "stable_shift_slow", "stable_shift_mask">>
RECURSIVE ShiftVars(_, _, _, _)
ShiftVars(st0, ds_list, var_name, k) ==
    IF k > Len(_shift_attrs) THEN st0
    ELSE Bind(ShiftVar(st0, ds_list, var_name, _shift_attrs[k]),
              LAMBDA st : ShiftVars(st, ds_list, var_name, k + 1))

process_v_attributes(st0, ds_list, var_name) ==
    Bind(st0, LAMBDA st :
        IF st.error # "" THEN st
        ELSE ShiftVars(
                FlagVar(
                    CountVars(
                        ErrorVars(DropLegacyAttrs(st, var_name), ds_list, var_name, 1),
                        ds_list, var_name, 1),
                    ds_list, var_name),
                ds_list, var_name, 1))

\* lines 1157-1204: the dataset with original_url_path and the mid_date
\* coordinate; json.dumps writes the keys of skipped_proj_granules as strings
json_dumps_dict(d) ==
    [k \in {StrOfInt(p) : p \in DOMAIN d} |->
        d[CHOOSE p \in DOMAIN d : StrOfInt(p) = k]]

NewLayers(acc, skipped_double) ==
    [error |-> "",
     layers |->
        [original_url_path |->
            RecordVar(acc.urls, [standard_name |-> "original_url_path"]),
         mid_date |->
            RecordVar(acc.dates,
                      [standard_name |-> "image_pair_center_date_with_time_separation"])],
     attrs |->
        [projection |-> projection,
         skipped_empty_data |-> acc.skipped_empty_granules,
         skipped_duplicate_middle_date |-> skipped_double,
         skipped_wrong_projection |-> json_dumps_dict(acc.skipped_proj_granules)],
     new_v_vars |-> <<>>,
     dropped |-> {}]

\* lines 1207-1230: the projection descriptor, on the first write only
MappingVar(st0, ds_list, first_write) ==
    Bind(st0, LAMBDA st :
        IF ~first_write THEN st
        ELSE
        LET proj_data ==
                IF "Polar_Stereographic" \in DOMAIN ds_list[1].vars THEN "Polar_Stereographic"
                ELSE IF "UTM_Projection" \in DOMAIN ds_list[1].vars THEN "UTM_Projection"
                ELSE IF "mapping" \in DOMAIN ds_list[1].vars THEN "mapping"
                ELSE "" IN
        IF proj_data = "" THEN Fail(st, "missing projection variable")
        ELSE SetVar(st, "mapping",
                    [dims |-> "", data |-> <<>>, attrs |-> ds_list[1].vars[proj_data].attrs]))

\* lines 1249-1260: unique_values, the grid_mapping_name of mapping of every
\* dataset when v of the first one names mapping as its grid mapping, and
\* the grid_mapping attribute of v of every dataset otherwise
grid_mapping_values(ds_list) ==
    IF ds_list[1].vars.v.attrs.grid_mapping = "mapping"
    THEN {ds_list[i].vars.mapping.attrs.grid_mapping_name : i \in 1..Len(ds_list)}
    ELSE {ds_list[i].vars.v.attrs.grid_mapping : i \in 1..Len(ds_list)}

\* lines 1238-1263: v, and the check of the grid mapping of the batch
VVar(st0, ds_list) ==
    Bind(st0, LAMBDA st :
        IF st.error # "" THEN st
        ELSE
        LET s1 == SetVarAttr(SetVar(st, "v", xr_concat([i \in 1..Len(ds_list) |-> ds_list[i].vars.v])),
                             "v", "description", "velocity magnitude")
        IN IF Cardinality(grid_mapping_values(ds_list)) > 1
           THEN Fail(s1, "multiple grid mapping values")
           ELSE [s1 EXCEPT !.new_v_vars = <<"v">>])

ds_grid_mapping_value(ds_list) ==
    IF ds_list[1].vars.v.attrs.grid_mapping = "mapping"
    THEN "mapping"
    ELSE ds_list[1].vars.v.attrs.grid_mapping

\* lines 1268-1283: map_scale_corrected, when the first dataset carries it
MapScaleVar(st0, ds_list) ==
    Bind(st0, LAMBDA st :
        IF st.error # "" THEN st
        ELSE IF "map_scale_corrected" \in DOMAIN ds_list[1].vars.v.attrs
        THEN DelVarAttr(
                SetVar(st, "map_scale_corrected",
                    RecordVar([i \in 1..Len(ds_list) |->
                                  get_data_var_attr(ds_list[i], "v", "map_scale_corrected",
                                                    MISSING_BYTE, FALSE, FALSE).value],
                              EmptyDict)),
                "v", "map_scale_corrected")
        ELSE st)

\* a spatial variable every dataset holds (vx, vy, chip_size_width, interp_mask)
OwnVar(st0, ds_list, var_name) ==
    Bind(st0, LAMBDA st :
        IF st.error # "" THEN st
        ELSE SetVar(st, var_name, xr_concat([i \in 1..Len(ds_list) |-> ds_list[i].vars[var_name]])))

\* a spatial variable some datasets lack (v_error, va, vr, vxp, vyp, vp, vp_error)
OptionalVar(st0, ds_list, var_name) ==
    Bind(st0, LAMBDA st :
        IF st.error # "" THEN st
        ELSE SetVarAttr(
                SetVar(st, var_name,
                       xr_concat([i \in 1..Len(ds_list) |-> get_data_var(ds_list[i], var_name)])),
                var_name, "units", "m/y"))

\* lines 1399-1418: chip_size_height, chip_size_width where it is not set
ChipSizeHeightVar(st0, ds_list) ==
    Bind(st0, LAMBDA st :
        IF st.error # "" THEN st
        ELSE SetVar(st, "chip_size_height",
                xr_concat([i \in 1..Len(ds_list) |->
                    IF ds_list[i].vars.chip_size_height.data # CHIP_SIZE_HEIGHT_NO_VALUE
                    THEN ds_list[i].vars.chip_size_height
                    ELSE ds_list[i].vars.chip_size_width])))

\* one velocity component: the variable, its promoted attributes and
\* grid_mapping; for va grid_mapping is set first (line 1338), for the other
\* components after process_v_attributes
VComp(st0, ds_list, var_name, optional) ==
    Bind(IF optional THEN OptionalVar(st0, ds_list, var_name)
                     ELSE OwnVar(st0, ds_list, var_name),
         LAMBDA s1 :
            IF s1.error # "" THEN s1
            ELSE IF var_name = "va"
            THEN Bind(set_grid_mapping_attr(s1, var_name, ds_grid_mapping_value(ds_list)),
                      LAMBDA s2 :
                        process_v_attributes([s2 EXCEPT !.new_v_vars = Append(@, var_name)],
                                             ds_list, var_name))
            ELSE Bind(process_v_attributes([s1 EXCEPT !.new_v_vars = Append(@, var_name)],
                                           ds_list, var_name),
                      LAMBDA s3 :
                        IF s3.error # "" THEN s3
                        ELSE set_grid_mapping_attr(s3, var_name,
                                                   ds_grid_mapping_value(ds_list))))

\* a spatial variable that is not a velocity component
OtherVar(st0, ds_list, var_name, optional, is_v_var) ==
    Bind(IF optional THEN OptionalVar(st0, ds_list, var_name)
         ELSE IF var_name = "chip_size_height" THEN ChipSizeHeightVar(st0, ds_list)
         ELSE OwnVar(st0, ds_list, var_name),
         LAMBDA s1 :
            IF s1.error # "" THEN s1
            ELSE [set_grid_mapping_attr(s1, var_name, ds_grid_mapping_value(ds_list))
                    EXCEPT !.new_v_vars = IF is_v_var THEN Append(@, var_name) ELSE @])

\* self.ds = [ds.drop_vars(var_name) ...]: the variable is taken out of the
\* datasets of the batch once its layer is built
DropVar(st0, var_name) ==
    Bind(st0, LAMBDA st :
        IF st.error # "" THEN st
        ELSE [st EXCEPT !.dropped = @ \cup {var_name}])

\* ds.drop_vars(names) for the names the dataset holds
drop_vars(ds, names) ==
    [ds EXCEPT !.vars = [n \in DOMAIN @ \ names |-> @[n]]]

\* lines 1290-1470: the spatial variables after v, in the order in which
\* combine_layers handles them
SpatialVars ==
    <<[name |-> "v_error", v_comp |-> FALSE, optional |-> TRUE, is_v_var |-> TRUE],
      [name |-> "vx", v_comp |-> TRUE, optional |-> FALSE, is_v_var |-> TRUE],
      [name |-> "vy", v_comp |-> TRUE, optional |-> FALSE, is_v_var |-> TRUE],
      [name |-> "va", v_comp |-> TRUE, optional |-> TRUE, is_v_var |-> TRUE],
      [name |-> "vr", v_comp |-> TRUE, optional |-> TRUE, is_v_var |-> TRUE],
      [name |-> "vxp", v_comp |-> TRUE, optional |-> TRUE, is_v_var |-> TRUE],
      [name |-> "vyp", v_comp |-> TRUE, optional |-> TRUE, is_v_var |-> TRUE],
      [name |-> "chip_size_height", v_comp |-> FALSE, optional |-> FALSE, is_v_var |-> FALSE],
      [name |-> "chip_size_width", v_comp |-> FALSE, optional |-> FALSE, is_v_var |-> FALSE],
      [name |-> "interp_mask", v_comp |-> FALSE, optional |-> FALSE, is_v_var |-> FALSE],
      [name |-> "vp", v_comp |-> FALSE, optional |-> TRUE, is_v_var |-> TRUE],
      [name |-> "vp_error", v_comp |-> FALSE, optional |-> TRUE, is_v_var |-> TRUE]>>

RECURSIVE SpatialLayers(_, _, _)
SpatialLayers(st0, ds_list, k) ==
    IF k > Len(SpatialVars) THEN st0
    ELSE Bind(DropVar(IF SpatialVars[k].v_comp
                      THEN VComp(st0, ds_list, SpatialVars[k].name,
                                 SpatialVars[k].optional)
                      ELSE OtherVar(st0, ds_list, SpatialVars[k].name,
                                    SpatialVars[k].optional, SpatialVars[k].is_v_var),
                      SpatialVars[k].name),
              LAMBDA st : SpatialLayers(st, ds_list, k + 1))

\* DataVars.ImgPairInfo.ALL and CONVERT_TO_DATE
ImgPairInfoALL ==
    <<"mission_img1", "sensor_img1", "satellite_img1", "mission_img2", "sensor_img2",
      "satellite_img2", "date_dt", "date_center", "roi_valid_percentage",
      "autoRIFT_software_version">>
CONVERT_TO_DATE == {"date_center"}

\* DataVars.ImgPairInfo.STD_NAME, DESCRIPTION and UNITS of the names in ALL
ImgPairInfoSTD_NAME ==
    [mission_img1 |-> "image1_mission",
     sensor_img1 |-> "image1_sensor",
     satellite_img1 |-> "image1_satellite",
     mission_img2 |-> "image2_mission",
     sensor_img2 |-> "image2_sensor",
     satellite_img2 |-> "image2_satellite",
     date_dt |-> "image_pair_time_separation",
     date_center |-> "image_pair_center_date",
     roi_valid_percentage |-> "region_of_interest_valid_pixel_percentage",
     autoRIFT_software_version |-> "autoRIFT_software_version"]
ImgPairInfoDESCRIPTION ==
    [mission_img1 |-> "id of the mission that acquired image 1",
     sensor_img1 |-> "id of the sensor that acquired image 1",
     satellite_img1 |-> "id of the satellite that acquired image 1",
     mission_img2 |-> "id of the mission that acquired image 2",
     sensor_img2 |-> "id of the sensor that acquired image 2",
     satellite_img2 |-> "id of the satellite that acquired image 2",
     date_dt |-> "time separation between acquisition of image 1 and image 2",
     date_center |-> "midpoint of image 1 and image 2 acquisition date",
     roi_valid_percentage |-> "percentage of pixels with a valid velocity estimate determined for the intersection of the full image pair footprint and the region of interest (roi) that defines where autoRIFT tried to estimate a velocity",
     autoRIFT_software_version |-> "version of autoRIFT software"]
ImgPairInfoUNITS == [date_dt |-> "days"]

\* the attributes of the variable of lines 1474-1488
ImgPairInfoAttrs(each) ==
    [standard_name |-> ImgPairInfoSTD_NAME[each],
     description |-> ImgPairInfoDESCRIPTION[each]]
        @@ (IF each \in DOMAIN ImgPairInfoUNITS
            THEN [units |-> ImgPairInfoUNITS[each]] ELSE EmptyDict)

\* lines 1472-1488: one variable per attribute of img_pair_info in ALL
RECURSIVE ImgPairInfoVars(_, _, _)
ImgPairInfoVars(st0, ds_list, k) ==
    Bind(st0, LAMBDA st :
        IF st.error # "" \/ k > Len(ImgPairInfoALL) THEN st
        ELSE
        LET each == ImgPairInfoALL[k]
            got == [i \in 1..Len(ds_list) |->
                       get_data_var_attr(ds_list[i], "img_pair_info", each, NoneVal, TRUE,
                                         each \in CONVERT_TO_DATE)]
        IN IF \E i \in 1..Len(ds_list) : got[i].error
           THEN Fail(st, "attribute is expected")
           ELSE ImgPairInfoVars(
                    SetVar(st, each, RecordVar([i \in 1..Len(ds_list) |-> got[i].value],
                                               ImgPairInfoAttrs(each))),
                    ds_list, k + 1))

\* lines 1491-1497: the name DataVars.AUTORIFT_SOFTWARE_VERSION is read;
\* DataVars declares no such attribute (itscube_types.py declares
\* AUTORIFT_SOFTWARE_VERSION in DataVars.ImgPairInfo only), so the statement
\* raises AttributeError for every batch that reaches it
SoftwareVars(st0, ds_list) ==
    Bind(st0, LAMBDA st :
        IF st.error # "" THEN st
        ELSE Fail(st, "AttributeError"))

\* lines 1143-1497: self.layers of a batch of at least one record, as far
\* as combine_layers builds it
unified_batch(acc, skipped_double, first_write) ==
    SoftwareVars(
        ImgPairInfoVars(
            SpatialLayers(
                DropVar(
                    MapScaleVar(
                        VVar(MappingVar(NewLayers(acc, skipped_double), acc.ds,
                                        first_write),
                             acc.ds),
                        acc.ds),
                    "v"),
                acc.ds, 1),
            acc.ds, 1),
        acc.ds)

(***************************************************************************)
(* The Zarr store at the destination: [exists, vars, attrs, encoding].     *)
(* combine_layers calls Dataset.to_zarr at lines 1679 and 1684, after the  *)
(* statement of line 1492, which raises: no call of a run reaches them,    *)
(* and the store is what init_output_store left.                           *)
(***************************************************************************)
NoStore == [exists |-> FALSE, vars |-> EmptyDict, attrs |-> EmptyDict, encoding |-> {}]

OnRecordAxis(var) == var.dims = "mid_date" \/ var.dims = "mid_date,y,x"

\* the variables of the store indexed by the record axis
RecordVars(st) == {n \in DOMAIN st.vars : OnRecordAxis(st.vars[n])}

\* the length of the record axis (the mid_date coordinate)
RecordAxisLen(st) == IF st.exists THEN Len(st.vars["mid_date"].data) ELSE 0

Consistent(st) ==
    \A n \in RecordVars(st) : Len(st.vars[n].data) = RecordAxisLen(st)

NoAcc == [dates |-> <<>>, ds |-> <<>>, urls |-> <<>>,
          skipped_empty_granules |-> <<>>, skipped_proj_granules |-> EmptyDict]

\* clear_vars: the records of the accumulator
clear_vars(acc) == [acc EXCEPT !.dates = <<>>, !.ds = <<>>, !.urls = <<>>]

\* clear: clear_vars and the rejection logs of the object
clear(acc) ==
    [clear_vars(acc) EXCEPT !.skipped_empty_granules = <<>>,
                            !.skipped_proj_granules = EmptyDict]

\* combine_layers(cube_store, is_first_write): the outcome
\* [error, store, layers, acc] of the call.  On an empty accumulator the
\* call returns with self.layers = {}.  Otherwise it ends where building
\* self.layers ends: layers is self.layers as far as it was built, and the
\* datasets of self.ds have lost the variables dropped on the way; dates
\* and urls are as they were.
combine_layers(acc, skipped_double, old, first_write) ==
    IF Len(acc.ds) = 0
    THEN {[error |-> "", store |-> old, layers |-> EmptyDict, acc |-> acc]}
    ELSE
    Bind(unified_batch(acc, skipped_double, first_write), LAMBDA st :
        {[error |-> st.error,
          store |-> old,
          layers |-> st.layers,
          acc |-> [acc EXCEPT !.ds = [i \in 1..Len(acc.ds) |->
                                         drop_vars(acc.ds[i], st.dropped)]]]})

\* format_stats divides by self.num_urls_from_api
format_stats_fails(num_urls) == num_urls = NoneVal \/ num_urls = 0

(***************************************************************************)
(* The deduplication runs: skip_duplicate_granules called on a list of     *)
(* candidate URLs, then once more on the list it returned.                 *)
(***************************************************************************)
InitDedup ==
    /\ found_urls \in SeqsUpTo(DedupUrls, MaxUrls)
    /\ url_idx = 1
    /\ keep_urls = <<>>
    /\ skipped_double_granules = <<>>
    /\ num_urls_from_api = NoneVal
    /\ granules = <<>>
    /\ dpc = "idle"
    /\ ncall = 0
    /\ first_granules = <<>>
    /\ first_skipped = <<>>
    /\ orchestrator = "skip_duplicate_granules"
    /\ NUM_GRANULES_TO_WRITE = 1
    /\ pc = "off"
    /\ pos = 1
    /\ start = 0
    /\ num_to_process = 0
    /\ num_tasks = 0
    /\ results = <<>>
    /\ is_first_write = TRUE
    /\ self_dates = <<>>
    /\ self_ds = <<>>
    /\ self_urls = <<>>
    /\ skipped_empty_granules = <<>>
    /\ skipped_proj_granules = EmptyDict
    /\ layers = NoneObj
    /\ store = NoStore
    /\ fatal = ""

\* lines 232-237: the call starts
DedupEnter ==
    /\ dpc = "idle"
    /\ ncall = 0
    /\ dpc' = "loop"
    /\ ncall' = 1
    /\ num_urls_from_api' = Len(found_urls)
    /\ keep_urls' = <<>>
    /\ skipped_double_granules' = <<>>
    /\ url_idx' = 1
    /\ UNCHANGED <<found_urls, granules, first_granules, first_skipped, cube_vars>>

\* lines 239-313: one iteration of the loop
DedupIterate ==
    /\ dpc = "loop"
    /\ url_idx <= Len(found_urls)
    /\ LET st == DedupStep([keep |-> keep_urls, skipped |-> skipped_double_granules],
                           found_urls[url_idx]) IN
         /\ keep_urls' = st.keep
         /\ skipped_double_granules' = st.skipped
    /\ url_idx' = url_idx + 1
    /\ UNCHANGED <<found_urls, num_urls_from_api, granules, dpc, ncall, first_granules,
                   first_skipped, cube_vars>>

\* lines 315-321: the loop is over, the kept lists are concatenated and returned
DedupReturn ==
    /\ dpc = "loop"
    /\ url_idx > Len(found_urls)
    /\ granules' = CollectGranules(keep_urls)
    /\ dpc' = "done"
    /\ UNCHANGED <<found_urls, url_idx, keep_urls, skipped_double_granules,
                   num_urls_from_api, ncall, first_granules, first_skipped, cube_vars>>

\* the caller hands the returned list to skip_duplicate_granules again
DedupAgain ==
    /\ dpc = "done"
    /\ ncall = 1
    /\ first_granules' = granules
    /\ first_skipped' = skipped_double_granules
    /\ found_urls' = granules
    /\ ncall' = 2
    /\ dpc' = "loop"
    /\ num_urls_from_api' = Len(granules)
    /\ keep_urls' = <<>>
    /\ skipped_double_granules' = <<>>
    /\ url_idx' = 1
    /\ granules' = <<>>
    /\ UNCHANGED cube_vars

NextDedup == DedupEnter \/ DedupIterate \/ DedupReturn \/ DedupAgain

SpecDedup == InitDedup /\ [][NextDedup]_vars

(***************************************************************************)
(* The orchestrators.  found_urls is what the search API (create,          *)
(* create_parallel) or glob (the two local orchestrators, whose paths are  *)
(* distinct) returns; num_granules is None.  The destination is a local    *)
(* directory that holds no store.  A run of a sequential orchestrator      *)
(* steps through pc = "start", then "read" and "check" for every granule,  *)
(* then "final"; a run of a parallel one through "start", then "submit",   *)
(* "compute" and "write" for every batch.  It ends in "done" or, when an   *)
(* exception leaves the orchestrator, in "error".                          *)
(***************************************************************************)
Orchestrators == {"create", "create_parallel", "create_from_local_no_api",
                  "create_from_local_parallel_no_api"}
Sequential == {"create", "create_from_local_no_api"}
Parallel == {"create_parallel", "create_from_local_parallel_no_api"}
Local == {"create_from_local_no_api", "create_from_local_parallel_no_api"}

\* the values of ITSCube.NUM_GRANULES_TO_WRITE of the runs
BatchSizes == {1, 2}

\* the granules a run can be given
CubeUrls == {UrlCurrent, UrlCurrentOld, UrlUpdated, UrlLegacy, UrlOtherProj,
             UrlOtherProjOld, UrlOutside}

Injective(s) == \A i, j \in 1..Len(s) : s[i] = s[j] => i = j

\* a task of the batch that has not returned
Pending == [pending |-> TRUE]

\* the accumulator and the rejection logs of the object
Acc == [dates |-> self_dates, ds |-> self_ds, urls |-> self_urls,
        skipped_empty_granules |-> skipped_empty_granules,
        skipped_proj_granules |-> skipped_proj_granules]

SetAcc(acc) ==
    /\ self_dates' = acc.dates
    /\ self_ds' = acc.ds
    /\ self_urls' = acc.urls
    /\ skipped_empty_granules' = acc.skipped_empty_granules
    /\ skipped_proj_granules' = acc.skipped_proj_granules

\* read_dataset / read_s3_dataset: open the granule and normalize it
read_dataset(url) ==
    Bind(open_dataset(url), LAMBDA ds : preprocess_dataset(ds, url))

Init ==
    /\ orchestrator \in Orchestrators
    /\ NUM_GRANULES_TO_WRITE \in BatchSizes
    /\ found_urls \in {s \in SeqsUpTo(CubeUrls, MaxGranules) :
                          orchestrator \in Local => Injective(s)}
    /\ url_idx = 1
    /\ keep_urls = <<>>
    /\ skipped_double_granules = <<>>
    /\ num_urls_from_api = NoneVal
    /\ granules = <<>>
    /\ dpc = "idle"
    /\ ncall = 0
    /\ first_granules = <<>>
    /\ first_skipped = <<>>
    /\ pc = "start"
    /\ pos = 1
    /\ start = 0
    /\ num_to_process = 0
    /\ num_tasks = 0
    /\ results = <<>>
    /\ is_first_write = TRUE
    /\ self_dates = <<>>
    /\ self_ds = <<>>
    /\ self_urls = <<>>
    /\ skipped_empty_granules = <<>>
    /\ skipped_proj_granules = EmptyDict
    /\ layers = NoneObj
    /\ store = NoStore
    /\ fatal = ""

\* init_output_store on a local directory: shutil.rmtree when it exists
init_output_store(old) == NoStore

\* the prologue of the four orchestrators: init_output_store, clear, the
\* search or the glob, skip_duplicate_granules, is_first_write = True
Begin ==
    /\ pc = "start"
    /\ SetAcc(clear(Acc))
    /\ layers' = NoneObj
    /\ store' = init_output_store(store)
    /\ is_first_write' = TRUE
    /\ IF Len(found_urls) = 0
       THEN /\ pc' = "done"
            /\ granules' = found_urls
            /\ num_urls_from_api' = NoneVal
            /\ skipped_double_granules' = <<>>
            /\ UNCHANGED <<start, num_to_process>>
       ELSE \E r \in {skip_duplicate_granules(found_urls)} :
            /\ pc' = IF orchestrator \in Sequential THEN "read" ELSE "submit"
            /\ granules' = r.granules
            /\ skipped_double_granules' = r.skipped_double_granules
            /\ num_urls_from_api' =
                   IF orchestrator = "create_from_local_parallel_no_api"
                   THEN Len(r.granules)
                   ELSE r.num_urls_from_api
            /\ start' = 0
            /\ num_to_process' = Len(r.granules)
    /\ UNCHANGED <<orchestrator, NUM_GRANULES_TO_WRITE, found_urls, pos, num_tasks,
                   results, fatal, dedup_only>>

\* the for loop of create / create_from_local_no_api: the granule is opened,
\* normalized and handed to add_layer
SeqRead ==
    /\ pc = "read"
    /\ \E res \in {read_dataset(granules[pos])} :
       IF res.error # ""
       THEN /\ pc' = "error"
            /\ fatal' = res.error
            /\ UNCHANGED <<self_dates, self_ds, self_urls, skipped_empty_granules,
                           skipped_proj_granules>>
       ELSE /\ pc' = "check"
            /\ \E acc \in {add_layer(Acc, res)} : SetAcc(acc)
            /\ UNCHANGED fatal
    /\ UNCHANGED <<orchestrator, NUM_GRANULES_TO_WRITE, found_urls, granules,
                   skipped_double_granules, num_urls_from_api, pos, start, num_to_process,
                   num_tasks, results, is_first_write, layers, store, dedup_only>>

\* if len(self.urls) == NUM_GRANULES_TO_WRITE: combine_layers; is_first_write = False
SeqCheck ==
    /\ pc = "check"
    /\ IF Len(self_urls) = NUM_GRANULES_TO_WRITE
       THEN \E out \in combine_layers(Acc, skipped_double_granules, store, is_first_write) :
                /\ store' = out.store
                /\ layers' = out.layers
                /\ SetAcc(out.acc)
                /\ fatal' = out.error
                /\ IF out.error # ""
                   THEN pc' = "error" /\ UNCHANGED <<is_first_write, pos>>
                   ELSE /\ is_first_write' = FALSE
                        /\ pos' = pos + 1
                        /\ pc' = IF pos = Len(granules) THEN "final" ELSE "read"
       ELSE /\ pos' = pos + 1
            /\ pc' = IF pos = Len(granules) THEN "final" ELSE "read"
            /\ UNCHANGED <<store, layers, self_dates, self_ds, self_urls,
                           skipped_empty_granules, skipped_proj_granules, fatal,
                           is_first_write>>
    /\ UNCHANGED <<orchestrator, NUM_GRANULES_TO_WRITE, found_urls, granules,
                   skipped_double_granules, num_urls_from_api, start, num_to_process,
                   num_tasks, results, dedup_only>>

\* after the loop: the remaining layers are written, then format_stats
SeqFinal ==
    /\ pc = "final"
    /\ IF Len(self_urls) > 0
       THEN \E out \in combine_layers(Acc, skipped_double_granules, store, is_first_write) :
                /\ store' = out.store
                /\ layers' = out.layers
                /\ SetAcc(out.acc)
                /\ IF out.error # ""
                   THEN pc' = "error" /\ fatal' = out.error
                   ELSE IF format_stats_fails(num_urls_from_api)
                   THEN pc' = "error" /\ fatal' = "format_stats"
                   ELSE pc' = "done" /\ fatal' = ""
       ELSE /\ IF format_stats_fails(num_urls_from_api)
               THEN pc' = "error" /\ fatal' = "format_stats"
               ELSE pc' = "done" /\ fatal' = ""
            /\ UNCHANGED <<store, layers, self_dates, self_ds, self_urls,
                           skipped_empty_granules, skipped_proj_granules>>
    /\ UNCHANGED <<orchestrator, NUM_GRANULES_TO_WRITE, found_urls, granules,
                   skipped_double_granules, num_urls_from_api, pos, start, num_to_process,
                   num_tasks, results, is_first_write, dedup_only>>

\* num_tasks = NUM_GRANULES_TO_WRITE if num_to_process > NUM_GRANULES_TO_WRITE
\*             else num_to_process
num_tasks_of(to_process, size) == IF to_process > size THEN size ELSE to_process

\* while num_to_process > 0: the tasks of the next batch are created and
\* handed to dask.compute
ParSubmit ==
    /\ pc = "submit"
    /\ num_to_process > 0
    /\ num_tasks' = num_tasks_of(num_to_process, NUM_GRANULES_TO_WRITE)
    /\ results' = [i \in 1..num_tasks' |-> Pending]
    /\ pc' = "compute"
    /\ UNCHANGED <<orchestrator, NUM_GRANULES_TO_WRITE, found_urls, granules,
                   skipped_double_granules, num_urls_from_api, pos, start, num_to_process,
                   is_first_write, self_dates, self_ds, self_urls, skipped_empty_granules,
                   skipped_proj_granules, layers, store, fatal, dedup_only>>

\* one task of the batch runs read_dataset / read_s3_dataset, in any order;
\* an exception in a task leaves dask.compute and the orchestrator
ParTask ==
    /\ pc = "compute"
    /\ \E i \in 1..num_tasks :
        /\ results[i] = Pending
        /\ \E res \in {read_dataset(granules[start + i])} :
           IF res.error # ""
           THEN pc' = "error" /\ fatal' = res.error /\ UNCHANGED results
           ELSE results' = [results EXCEPT ![i] = res] /\ UNCHANGED <<pc, fatal>>
    /\ UNCHANGED <<orchestrator, NUM_GRANULES_TO_WRITE, found_urls, granules,
                   skipped_double_granules, num_urls_from_api, pos, start, num_to_process,
                   num_tasks, is_first_write, self_dates, self_ds, self_urls,
                   skipped_empty_granules, skipped_proj_granules, layers, store,
                   dedup_only>>

\* a variant of AddLayers that takes the results from the last to the first
RECURSIVE AddLayersReversed(_, _)
AddLayersReversed(acc, rs) ==
    IF rs = <<>> THEN acc
    ELSE Bind(AddLayersReversed(acc, Tail(rs)), LAMBDA nxt : add_layer(nxt, Head(rs)))

\* for each_ds in results[0]: self.add_layer(*each_ds)
RECURSIVE AddLayers(_, _)
AddLayers(acc, rs) ==
    IF rs = <<>> THEN acc
    ELSE Bind(add_layer(acc, Head(rs)), LAMBDA nxt : AddLayers(nxt, Tail(rs)))

\* a variant of ParCollect that does not wait for the tasks of the batch: the
\* results at hand are accumulated
ParCollectEarly ==
    /\ pc = "compute"
    /\ \E i \in 1..num_tasks : results[i] # Pending
    /\ \E acc \in {AddLayers(Acc, SelectSeq(results, LAMBDA r : r # Pending))} : SetAcc(acc)
    /\ results' = <<>>
    /\ pc' = "write"
    /\ UNCHANGED <<orchestrator, NUM_GRANULES_TO_WRITE, found_urls, granules,
                   skipped_double_granules, num_urls_from_api, pos, start, num_to_process,
                   num_tasks, is_first_write, layers, store, fatal, dedup_only>>

\* dask.compute has returned: the results are accumulated in the order of
\* the tasks
ParCollect ==
    /\ pc = "compute"
    /\ \A i \in 1..num_tasks : results[i] # Pending
    /\ \E acc \in {AddLayers(Acc, results)} : SetAcc(acc)
    /\ results' = <<>>
    /\ pc' = "write"
    /\ UNCHANGED <<orchestrator, NUM_GRANULES_TO_WRITE, found_urls, granules,
                   skipped_double_granules, num_urls_from_api, pos, start, num_to_process,
                   num_tasks, is_first_write, layers, store, fatal, dedup_only>>

\* combine_layers(cube_store, is_first_write); format_stats (create_parallel);
\* if start == 0: is_first_write = False; the counters move on
ParWrite ==
    /\ pc = "write"
    /\ \E out \in combine_layers(Acc, skipped_double_granules, store, is_first_write) :
        /\ store' = out.store
        /\ layers' = out.layers
        /\ SetAcc(out.acc)
        /\ IF out.error # ""
           THEN /\ pc' = "error" /\ fatal' = out.error
                /\ UNCHANGED <<is_first_write, num_to_process, start>>
           ELSE IF orchestrator = "create_parallel" /\ format_stats_fails(num_urls_from_api)
           THEN /\ pc' = "error" /\ fatal' = "format_stats"
                /\ UNCHANGED <<is_first_write, num_to_process, start>>
           ELSE /\ is_first_write' = IF start = 0 THEN FALSE ELSE is_first_write
                /\ num_to_process' = num_to_process - num_tasks
                /\ start' = start + num_tasks
                /\ pc' = "submit"
                /\ fatal' = ""
    /\ UNCHANGED <<orchestrator, NUM_GRANULES_TO_WRITE, found_urls, granules,
                   skipped_double_granules, num_urls_from_api, pos, num_tasks, results,
                   dedup_only>>

\* the while loop is over; format_stats (create_from_local_parallel_no_api)
ParReturn ==
    /\ pc = "submit"
    /\ num_to_process <= 0
    /\ IF orchestrator = "create_from_local_parallel_no_api"
          /\ format_stats_fails(num_urls_from_api)
       THEN pc' = "error" /\ fatal' = "format_stats"
       ELSE pc' = "done" /\ fatal' = ""
    /\ UNCHANGED <<orchestrator, NUM_GRANULES_TO_WRITE, found_urls, granules,
                   skipped_double_granules, num_urls_from_api, pos, start, num_to_process,
                   num_tasks, results, is_first_write, self_dates, self_ds, self_urls,
                   skipped_empty_granules, skipped_proj_granules, layers, store,
                   dedup_only>>

Next ==
    \/ Begin
    \/ SeqRead \/ SeqCheck \/ SeqFinal
    \/ ParSubmit \/ ParTask \/ ParCollect \/ ParWrite \/ ParReturn

Spec == Init /\ [][Next]_vars

(***************************************************************************)
(* The runs of the assembler alone: the granules of one batch, drawn from  *)
(* every format, are normalized and accumulated one by one and the unified *)
(* batch is built, as on a first write or as on an append.                 *)
(***************************************************************************)
\* the longest batch
MaxBatchLen == 3

FormatUrls == {UrlCurrent, UrlUpdated, UrlLegacy, UrlRadar, UrlNoData}

InitUnify ==
    /\ orchestrator = "combine_layers"
    /\ NUM_GRANULES_TO_WRITE \in {MaxBatchLen}
    /\ granules \in SeqsUpTo(FormatUrls, MaxBatchLen) \ {<<>>}
    /\ found_urls = granules
    /\ url_idx = 1
    /\ keep_urls = <<>>
    /\ skipped_double_granules = <<>>
    /\ num_urls_from_api = Len(granules)
    /\ dpc = "idle"
    /\ ncall = 0
    /\ first_granules = <<>>
    /\ first_skipped = <<>>
    /\ pc = "read"
    /\ pos = 1
    /\ start = 0
    /\ num_to_process = 0
    /\ num_tasks = 0
    /\ results = <<>>
    /\ is_first_write \in BOOLEAN
    /\ self_dates = <<>>
    /\ self_ds = <<>>
    /\ self_urls = <<>>
    /\ skipped_empty_granules = <<>>
    /\ skipped_proj_granules = EmptyDict
    /\ layers = NoneObj
    /\ store = NoStore
    /\ fatal = ""

\* preprocess_dataset and add_layer on the next granule of the batch
UnifyRead ==
    /\ pc = "read"
    /\ pos <= Len(granules)
    /\ SetAcc(add_layer(Acc, read_dataset(granules[pos])))
    /\ pos' = pos + 1
    /\ UNCHANGED <<orchestrator, NUM_GRANULES_TO_WRITE, found_urls, granules,
                   skipped_double_granules, num_urls_from_api, pc, start, num_to_process,
                   num_tasks, results, is_first_write, layers, store, fatal, dedup_only>>

\* lines 1138-1497: combine_layers on what was accumulated; with no record
\* self.layers = {} and the call returns (1143-1149)
UnifyBatch ==
    /\ pc = "read"
    /\ pos > Len(granules)
    /\ \E out \in combine_layers(Acc, skipped_double_granules, store, is_first_write) :
        /\ layers' = out.layers
        /\ fatal' = out.error
        /\ self_ds' = out.acc.ds
    /\ pc' = "unified"
    /\ UNCHANGED <<orchestrator, NUM_GRANULES_TO_WRITE, found_urls, granules,
                   skipped_double_granules, num_urls_from_api, pos, start, num_to_process,
                   num_tasks, results, is_first_write, self_dates, self_urls,
                   skipped_empty_granules, skipped_proj_granules, store, dedup_only>>

NextUnify == UnifyRead \/ UnifyBatch

SpecUnify == InitUnify /\ [][NextUnify]_vars

(***************************************************************************)
(* Properties of skip_duplicate_granules (checked under SpecDedup)         *)
(***************************************************************************)
\* what a URL says, read off its name: the two processing dates and the
\* physical pair
Proc1(u) == u.tokens[5]
Proc2(u) == u.tokens[13]
PairKey(u) == <<u.tokens[4], u.tokens[3], u.tokens[12], u.tokens[11]>>
SameDates(a, b) == Proc1(a) = Proc1(b) /\ Proc2(a) = Proc2(b)
\* a's pair of processing dates comes after b's in lexicographic order
LexNewer(a, b) == Proc1(a) > Proc1(b) \/ (Proc1(a) = Proc1(b) /\ Proc2(a) > Proc2(b))
\* the first call has returned and its argument is still in found_urls
FirstCallDone == dpc = "done" /\ ncall = 1
\* some candidate of u's pair in the input has a newer pair of processing dates
Superseded(u) ==
    \E k \in 1..Len(found_urls) :
        PairKey(found_urls[k]) = PairKey(u) /\ LexNewer(found_urls[k], u)
\* the elements of s at the positions in I, in order
RECURSIVE PickFrom(_, _, _)
PickFrom(s, I, i) ==
    IF i > Len(s) THEN <<>>
    ELSE (IF i \in I THEN <<s[i]>> ELSE <<>>) \o PickFrom(s, I, i + 1)
\* the step taken is one iteration of the loop
IsIterateStep == dpc = "loop" /\ url_idx <= Len(found_urls) /\ url_idx' = url_idx + 1

\* C4: deduplication is idempotent: the second call, made on the list the
\* first call returned, returns the same list and records no duplicate.
C4_Idempotent ==
    (dpc = "done" /\ ncall = 2) =>
        /\ granules = first_granules
        /\ skipped_double_granules = <<>>

\* a second call has returned, on a list of two pairs from which the first
\* call removed a duplicate
C4_Witness ==
    /\ dpc = "done" /\ ncall = 2
    /\ first_skipped # <<>>
    /\ Len(keep_urls) = 2
    /\ Len(granules) = 2

\* C5 (as claimed): two candidates of the input with the same physical pair
\* and identical processing dates on both images are both in the output.
C5_BothRetained ==
    FirstCallDone =>
        \A i, j \in 1..Len(found_urls) :
            (i # j /\ PairKey(found_urls[i]) = PairKey(found_urls[j])
                   /\ SameDates(found_urls[i], found_urls[j]))
            => (found_urls[i] \in Range(granules) /\ found_urls[j] \in Range(granules))

\* C5 (amended): two such candidates share their fate: both are in the
\* output when no candidate of their pair has a newer pair of processing
\* dates, and both are in skipped_double_granules (and not in the output)
\* otherwise.
C5_BothSameFate ==
    FirstCallDone =>
        \A i, j \in 1..Len(found_urls) :
            (i # j /\ PairKey(found_urls[i]) = PairKey(found_urls[j])
                   /\ SameDates(found_urls[i], found_urls[j]))
            => IF Superseded(found_urls[i])
               THEN /\ found_urls[i] \notin Range(granules)
                    /\ found_urls[j] \notin Range(granules)
                    /\ found_urls[i] \in Range(skipped_double_granules)
                    /\ found_urls[j] \in Range(skipped_double_granules)
               ELSE /\ Count(granules, found_urls[i]) = Count(found_urls, found_urls[i])
                    /\ Count(granules, found_urls[j]) = Count(found_urls, found_urls[j])
                    /\ found_urls[i] \notin Range(skipped_double_granules)
                    /\ found_urls[j] \notin Range(skipped_double_granules)

\* two different URLs with identical dates were both kept while an older
\* candidate of the same pair, seen first, was replaced
C5_Witness ==
    /\ FirstCallDone
    /\ Len(found_urls) = 3
    /\ PairKey(found_urls[2]) = PairKey(found_urls[1])
    /\ PairKey(found_urls[3]) = PairKey(found_urls[1])
    /\ SameDates(found_urls[2], found_urls[3])
    /\ found_urls[2] # found_urls[3]
    /\ granules = <<found_urls[2], found_urls[3]>>
    /\ skipped_double_granules = <<found_urls[1]>>

\* C6 (as claimed): for candidates A and B of one physical pair with both of
\* A's processing dates >= B's, B is discarded (it is in
\* skipped_double_granules) and A is retained, in either input order.
C6_DominatedDiscarded ==
    FirstCallDone =>
        \A a, b \in 1..Len(found_urls) :
            (a # b /\ PairKey(found_urls[a]) = PairKey(found_urls[b])
                   /\ Proc1(found_urls[a]) >= Proc1(found_urls[b])
                   /\ Proc2(found_urls[a]) >= Proc2(found_urls[b]))
            => /\ found_urls[b] \in Range(skipped_double_granules)
               /\ found_urls[b] \notin Range(granules)
               /\ found_urls[a] \in Range(granules)

\* C6 (amended): when both of A's processing dates are >= B's and they are
\* not both equal, B is discarded, in either input order; A is retained
\* exactly when no candidate of the pair has a newer pair of processing
\* dates than A.
C6_StrictlyDominatedDiscarded ==
    FirstCallDone =>
        \A a, b \in 1..Len(found_urls) :
            (a # b /\ PairKey(found_urls[a]) = PairKey(found_urls[b])
                   /\ Proc1(found_urls[a]) >= Proc1(found_urls[b])
                   /\ Proc2(found_urls[a]) >= Proc2(found_urls[b])
                   /\ ~SameDates(found_urls[a], found_urls[b]))
            => /\ found_urls[b] \in Range(skipped_double_granules)
               /\ found_urls[b] \notin Range(granules)
               /\ (found_urls[a] \in Range(granules) <=> ~Superseded(found_urls[a]))
               /\ (found_urls[a] \in Range(skipped_double_granules)
                       <=> Superseded(found_urls[a]))

\* the example of the claim with the newer candidate first: processing dates
\* (2020-02-01, 2020-02-01) then (2020-01-01, 2020-01-01); only the newer
\* one is returned and the older one is in the rejection list
C6_Witness ==
    /\ FirstCallDone
    /\ Len(found_urls) = 2
    /\ PairKey(found_urls[1]) = PairKey(found_urls[2])
    /\ Proc1(found_urls[1]) = 20200201 /\ Proc2(found_urls[1]) = 20200201
    /\ Proc1(found_urls[2]) = 20200101 /\ Proc2(found_urls[2]) = 20200101
    /\ granules = <<found_urls[1]>>
    /\ skipped_double_granules = <<found_urls[2]>>

\* the kept list of the incoming URL's pair before the step (<<>> for a new pair)
KeptOfIncoming ==
    LET k == KeyIndex(keep_urls, PairKey(found_urls[url_idx])) IN
    IF k = 0 THEN <<>> ELSE keep_urls[k].urls
\* the positions of that list the claimed rule replaces
ReplacedByRule ==
    LET u == found_urls[url_idx] IN
    {i \in 1..Len(KeptOfIncoming) :
        \/ Proc1(KeptOfIncoming[i]) <= Proc1(u) /\ Proc2(KeptOfIncoming[i]) <= Proc2(u)
        \/ Proc1(KeptOfIncoming[i]) < Proc1(u)}
\* the effect the claim describes: the replaced ones move to
\* skipped_double_granules, the others stay, the incoming one is appended
ReplacementDone ==
    LET k == KeyIndex(keep_urls, PairKey(found_urls[url_idx]))
        kept == KeptOfIncoming IN
    /\ skipped_double_granules' =
           skipped_double_granules \o PickFrom(kept, ReplacedByRule, 1)
    /\ Len(keep_urls') = Len(keep_urls)
    /\ keep_urls'[k].urls =
           Append(PickFrom(kept, (1..Len(kept)) \ ReplacedByRule, 1), found_urls[url_idx])
    /\ \A m \in 1..Len(keep_urls) : m # k => keep_urls'[m] = keep_urls[m]

\* C7 (as claimed): an incoming identifier replaces every kept identifier of
\* its pair whose two processing dates are both <= its own, and every kept
\* one whose first processing date is strictly older; the replaced ones move
\* to skipped_double_granules and the incoming one is appended.
C7_ReplacesDominated ==
    [][(IsIterateStep /\ ReplacedByRule # {}) => ReplacementDone]_vars

\* C7 (amended): the same, unless a kept identifier of the pair has exactly
\* the incoming identifier's two processing dates: then nothing is replaced
\* and the incoming identifier is appended to the kept list.
C7_ReplacesDominatedUnlessIdentical ==
    [][IsIterateStep =>
        LET u == found_urls[url_idx]
            k == KeyIndex(keep_urls, PairKey(u))
            identical == \E i \in 1..Len(KeptOfIncoming) : SameDates(KeptOfIncoming[i], u)
        IN /\ (ReplacedByRule # {} /\ ~identical) => ReplacementDone
           /\ identical =>
                /\ skipped_double_granules' = skipped_double_granules
                /\ keep_urls' = [keep_urls EXCEPT ![k].urls = Append(@, u)]
      ]_vars

\* an incoming identifier with a newer first and an older second processing
\* date has just replaced the kept one
C7_Witness ==
    /\ dpc = "loop" /\ url_idx = 3
    /\ PairKey(found_urls[1]) = PairKey(found_urls[2])
    /\ Proc1(found_urls[1]) < Proc1(found_urls[2])
    /\ Proc2(found_urls[1]) > Proc2(found_urls[2])
    /\ skipped_double_granules = <<found_urls[1]>>
    /\ Len(keep_urls) = 1
    /\ keep_urls[1].urls = <<found_urls[2]>>

\* C8: an incoming identifier that replaces no kept identifier of its pair
\* and has the processing dates of none of them is appended to
\* skipped_double_granules, and keep_urls is left as it was.
C8_DiscardLeavesKept ==
    [][(/\ IsIterateStep
        /\ KeptOfIncoming # <<>>
        /\ ReplacedByRule = {}
        /\ \A i \in 1..Len(KeptOfIncoming) :
               ~SameDates(KeptOfIncoming[i], found_urls[url_idx]))
       => /\ skipped_double_granules' =
                 Append(skipped_double_granules, found_urls[url_idx])
          /\ keep_urls' = keep_urls
      ]_vars

\* the third candidate, older in its first processing date than the two
\* kept ones of its pair, has just been discarded
C8_Witness ==
    /\ dpc = "loop" /\ url_idx = 4
    /\ Len(keep_urls) = 1
    /\ keep_urls[1].urls = <<found_urls[1], found_urls[2]>>
    /\ skipped_double_granules = <<found_urls[3]>>
    /\ Proc1(found_urls[3]) < Proc1(found_urls[1])
    /\ Proc2(found_urls[3]) > Proc2(found_urls[1])

\* C9: the set of identifiers returned and the set recorded in
\* skipped_double_granules are the same for every permutation of the input.
C9_PermutationInvariant ==
    FirstCallDone =>
        \A p \in PermsOf(found_urls) :
            \A r \in {skip_duplicate_granules(p)} :
                /\ Range(r.granules) = Range(granules)
                /\ Range(r.skipped_double_granules) = Range(skipped_double_granules)

\* a list of three candidates of two pairs, one of them discarded, which
\* some permutation of the input returns in another order
C9_Witness ==
    /\ FirstCallDone
    /\ Len(found_urls) = 3
    /\ Len(keep_urls) = 2
    /\ Len(skipped_double_granules) = 1
    /\ \E p \in PermsOf(found_urls) : skip_duplicate_granules(p).granules # granules

(***************************************************************************)
(* Properties of the runs of the orchestrators and of the assembler.       *)
(***************************************************************************)
\* the granules of the sequence for which the normalizer returns a record
Accepted(urls) == {i \in 1..Len(urls) : read_dataset(urls[i]).data # NoneObj}
NumAccepted(urls) == Cardinality(Accepted(urls))

\* combine_layers is the next step of the run and the accumulator holds a
\* record
WritePending ==
    /\ Len(self_ds) > 0
    /\ \/ pc = "write"
       \/ pc = "check" /\ Len(self_urls) = NUM_GRANULES_TO_WRITE
       \/ pc = "final"

\* the fatal errors of the program: the conditions for which
\* preprocess_dataset, get_data_var_attr and combine_layers hold a raise
\* statement
FatalErrors == {"unsupported projection", "unexpected grid cell size",
                "missing projection variable", "multiple grid mapping values",
                "attribute is expected"}

\* the run is over and was not ended by a fatal error of the program
EndsWithoutFatal == pc = "done" \/ (pc = "error" /\ fatal \notin FatalErrors)

\* the records of the accumulator as add_layer stored them, before
\* combine_layers drops variables from them
Batch == [i \in 1..Len(self_urls) |-> read_dataset(self_urls[i]).data]

\* the records of a store: its mid_date and original_url_path values
Records(st) ==
    IF st.exists
    THEN [mid_date |-> st.vars["mid_date"].data, url |-> st.vars["original_url_path"].data]
    ELSE [mid_date |-> <<>>, url |-> <<>>]

\* C1: when a run of any of the four orchestrators is over and no fatal
\* error of the program ended it, the length of the record axis of the
\* store is the number of deduplicated granules for which the normalizer
\* returned a record.
C1_RecordAxisCountsAccepted ==
    (orchestrator \in Orchestrators /\ EndsWithoutFatal)
        => RecordAxisLen(store) = NumAccepted(granules)

\* a run over one accepted granule has ended in combine_layers, on the
\* AttributeError of line 1492, and the destination holds no store
C1_Witness ==
    /\ orchestrator \in Orchestrators
    /\ pc = "error"
    /\ fatal = "AttributeError"
    /\ Len(granules) = 1
    /\ NumAccepted(granules) = 1
    /\ RecordAxisLen(store) = 0

\* C2: the first call of combine_layers that writes is a first write, every
\* later one an append: whenever combine_layers is about to be called on a
\* batch of records, is_first_write holds exactly when the store has not
\* been created.
C2_FirstWriteCreates ==
    (orchestrator \in Orchestrators /\ WritePending)
        => (is_first_write <=> ~store.exists)

\* combine_layers is about to be called for an append to a store that was
\* never created
C2_Witness ==
    /\ orchestrator \in Parallel
    /\ WritePending
    /\ ~is_first_write
    /\ ~store.exists
    /\ start > 0

\* a call of combine_layers on a batch of records writes the batch, unless
\* it raises a fatal error of the program: afterwards every variable of the
\* store on the record axis has the length of the record axis, which has
\* grown by the records of the batch
BatchWritten ==
    (orchestrator \in Orchestrators /\ WritePending) =>
        \/ pc' = "error" /\ fatal' \in FatalErrors
        \/ /\ store'.exists
           /\ Consistent(store')
           /\ RecordAxisLen(store') = RecordAxisLen(store) + Len(self_ds)

\* C3: after every write (a first write or an append) every variable of the
\* store on the record axis has the length of the record axis, the number
\* of accepted granules written so far.
C3_SameRecordLength == [][BatchWritten]_vars

\* a batch of two records was handed to combine_layers: its layers were
\* built up to the variables of img_pair_info and nothing was written
C3_Witness ==
    /\ orchestrator \in Orchestrators
    /\ pc = "error"
    /\ fatal = "AttributeError"
    /\ Len(self_urls) = 2
    /\ "roi_valid_percentage" \in DOMAIN layers
    /\ Len(layers["v"].data) = 2
    /\ ~store.exists

\* the spatial variables some formats lack, and the attributes of the
\* velocity components every format does not carry
OptionalSpatial == {"v_error", "va", "vr", "vxp", "vyp", "vp", "vp_error"}
PromotedCounts == {"stable_count", "stable_count_slow", "stable_count_mask"}

\* self.layers was built up to line 1492, past every spatial variable and
\* every promoted attribute, and the variable name holds, for every record
\* of the batch, the value of the record or the marker
FilledWith(name, carries(_), own(_), marker) ==
    /\ fatal = "AttributeError"
    /\ name \in DOMAIN layers
    /\ Len(layers[name].data) = Len(self_urls)
    /\ \A i \in 1..Len(self_urls) :
        layers[name].data[i] = IF carries(i) THEN own(i) ELSE marker

\* C10: a variable or promoted attribute that a record of the batch carries
\* is in the unified batch, with the record's value where the record
\* carries it and the missing-value marker where it does not.
C10_NeverDropsAVariable ==
    (orchestrator = "combine_layers" /\ pc = "unified") =>
        /\ \A name \in OptionalSpatial :
            (\E i \in 1..Len(self_urls) : name \in DOMAIN Batch[i].vars)
                => FilledWith(name,
                              LAMBDA i : name \in DOMAIN Batch[i].vars,
                              LAMBDA i : Batch[i].vars[name].data,
                              NaN)
        /\ \A name \in PromotedCounts :
            (\E i \in 1..Len(self_urls) : HasAttr(Batch[i], "vx", name))
                => FilledWith(name,
                              LAMBDA i : HasAttr(Batch[i], "vx", name),
                              LAMBDA i : Batch[i].vars.vx.attrs[name],
                              MISSING_VALUE)
        /\ (\E i \in 1..Len(self_urls) : HasAttr(Batch[i], "v", "map_scale_corrected"))
                => FilledWith("map_scale_corrected",
                              LAMBDA i : HasAttr(Batch[i], "v", "map_scale_corrected"),
                              LAMBDA i : Batch[i].vars.v.attrs.map_scale_corrected,
                              MISSING_BYTE)

\* the layers of a batch were built without stable_count although the
\* second record of the batch carries it
C10_Witness ==
    /\ orchestrator = "combine_layers"
    /\ pc = "unified"
    /\ fatal = "AttributeError"
    /\ Len(self_urls) >= 2
    /\ ~HasAttr(Batch[1], "vx", "stable_count")
    /\ HasAttr(Batch[2], "vx", "stable_count")
    /\ "vp_error" \in DOMAIN layers
    /\ "stable_count" \notin DOMAIN layers

\* the granules of the list for which the normalizer returns a record, in the
\* order of the list
AcceptedSeq(urls) == SelectSeq(urls, LAMBDA u : read_dataset(u).data # NoneObj)

\* the middle dates of their records
RECURSIVE DatesOf(_)
DatesOf(urls) ==
    IF urls = <<>> THEN <<>>
    ELSE <<read_dataset(Head(urls)).mid_date>> \o DatesOf(Tail(urls))

\* C11: whatever the batch size, when a run is over and no fatal error of
\* the program ended it, the cube holds the records that one single batch
\* of all the accepted granules would hold: the accepted granules of the
\* deduplicated list and their middle dates, in the order of the list.
C11_BatchSizeIndependent ==
    (orchestrator \in Orchestrators /\ EndsWithoutFatal) =>
        Records(store) = [mid_date |-> DatesOf(AcceptedSeq(granules)),
                          url |-> AcceptedSeq(granules)]

\* a run in batches of one record over two accepted granules has ended in
\* the combine_layers call of its first batch: the cube holds no record
C11_Witness ==
    /\ orchestrator \in Sequential
    /\ pc = "error"
    /\ fatal = "AttributeError"
    /\ NUM_GRANULES_TO_WRITE = 1
    /\ Len(AcceptedSeq(granules)) = 2
    /\ pos = 1
    /\ Records(store).url = <<>>

(***************************************************************************)
(* Runs of the orchestrators over other sets of granules.  InitFrom(U) is  *)
(* the state of an ITSCube object after construction, with the list the    *)
(* search or the glob will return made of granules of U.                   *)
(***************************************************************************)
InitRun(lists, stores) ==
    /\ orchestrator \in Orchestrators
    /\ NUM_GRANULES_TO_WRITE \in BatchSizes
    /\ found_urls \in {s \in lists : orchestrator \in Local => Injective(s)}
    /\ url_idx = 1
    /\ keep_urls = <<>>
    /\ skipped_double_granules = <<>>
    /\ num_urls_from_api = NoneVal
    /\ granules = <<>>
    /\ dpc = "idle"
    /\ ncall = 0
    /\ first_granules = <<>>
    /\ first_skipped = <<>>
    /\ pc = "start"
    /\ pos = 1
    /\ start = 0
    /\ num_to_process = 0
    /\ num_tasks = 0
    /\ results = <<>>
    /\ is_first_write = TRUE
    /\ self_dates = <<>>
    /\ self_ds = <<>>
    /\ self_urls = <<>>
    /\ skipped_empty_granules = <<>>
    /\ skipped_proj_granules = EmptyDict
    /\ layers = NoneObj
    /\ store \in stores
    /\ fatal = ""

\* the destination is a local directory that holds no store
InitWith(lists) == InitRun(lists, {NoStore})

InitFrom(U) == InitWith(SeqsUpTo(U, MaxGranules))

\* granules of one format: in the cube, of another projection, outside the
\* bounding box, and inside it without a valid velocity
RejectUrls == {UrlCurrent, UrlUpdated, UrlOtherProj, UrlOutside, UrlNoData}

InitReject == InitFrom(RejectUrls)

SpecReject == InitReject /\ [][Next]_vars

\* the number of granules of the list that add_layer has been called for
Processed ==
    IF orchestrator \in Sequential
    THEN CASE pc = "read" -> pos - 1
           [] pc = "check" -> pos
           [] pc \in {"final", "done"} -> Len(granules)
           [] OTHER -> 0
    ELSE CASE pc \in {"submit", "compute"} -> start
           [] pc = "write" -> start + num_tasks
           [] pc = "done" -> Len(granules)
           [] OTHER -> 0

\* the projection code the granule carries
SourceProjection(url) == open_dataset(url).vars.mapping.attrs.spatial_epsg

\* the outcome the granule is to have, from its projection, the cells of
\* its grid inside the bounding box and the valid cells of v among them
Outcome(url) ==
    LET ds == open_dataset(url)
        mask_data == Cropped(ds) IN
    IF StrOfInt(SourceProjection(url)) # projection THEN "wrong projection"
    ELSE IF Len(mask_data.x) = 0 \/ Len(mask_data.y) = 0 THEN "empty"
    ELSE IF mask_data.valid = {} THEN "empty"
    ELSE "accepted"

WithOutcome(urls, kind) == SelectSeq(urls, LAMBDA u : Outcome(u) = kind)

\* C12: every granule that has been normalized is in exactly one place: in
\* skipped_proj_granules under its projection code iff its projection is not
\* the target one, in skipped_empty_granules iff its projection is the
\* target one and no cell is selected or no selected cell of v is valid, and
\* among the records (of the cube or of the accumulator) otherwise, once and
\* in the order of the list.  A run over a granule of the cube, one of
\* another projection and one outside the bounding box that no fatal error
\* of the program ended has one record in the cube, one wrong-projection
\* rejection and one empty rejection.
C12_ClassifiedOnce ==
    orchestrator \in Orchestrators =>
        /\ pc \notin {"start", "error"} =>
            LET done == SubSeq(granules, 1, Processed)
                wrong == WithOutcome(done, "wrong projection") IN
            /\ skipped_empty_granules = WithOutcome(done, "empty")
            /\ DOMAIN skipped_proj_granules = {SourceProjection(u) : u \in Range(wrong)}
            /\ \A code \in DOMAIN skipped_proj_granules :
                   skipped_proj_granules[code] =
                       SelectSeq(wrong, LAMBDA u : SourceProjection(u) = code)
            /\ Records(store).url \o self_urls = WithOutcome(done, "accepted")
        /\ (EndsWithoutFatal /\ granules = <<UrlCurrent, UrlOtherProj, UrlOutside>>) =>
               /\ RecordAxisLen(store) = 1
               /\ Len(skipped_empty_granules) = 1
               /\ DOMAIN skipped_proj_granules = {32629}
               /\ Len(skipped_proj_granules[32629]) = 1

\* the run over the three granules of the example has ended in
\* combine_layers with its three granules classified and no record in the
\* cube
C12_Witness ==
    /\ orchestrator \in Orchestrators
    /\ pc = "error"
    /\ fatal = "AttributeError"
    /\ granules = <<UrlCurrent, UrlOtherProj, UrlOutside>>
    /\ self_urls = <<UrlCurrent>>
    /\ skipped_empty_granules = <<UrlOutside>>
    /\ skipped_proj_granules = (32629 :> <<UrlOtherProj>>)
    /\ RecordAxisLen(store) = 0

(***************************************************************************)
(* The runs of the orchestrators as they are scheduled: the interpreter    *)
(* runs the next statement of the orchestrator, and the thread pool of     *)
(* dask.compute runs every task it was handed, so a step that can be taken *)
(* is taken.                                                               *)
(***************************************************************************)
\* a granule of the cube, one of another projection, one of the same dates
\* that it supersedes, and one outside the bounding box
LiveUrls == {UrlCurrent, UrlOtherProj, UrlOtherProjOld, UrlOutside}

InitLive == InitFrom(LiveUrls)

SpecLive == InitLive /\ [][Next]_vars /\ WF_vars(Next)

RECURSIVE SumLen(_, _)
SumLen(dict, keys) ==
    IF keys = {} THEN 0
    ELSE LET k == CHOOSE c \in keys : TRUE IN Len(dict[k]) + SumLen(dict, keys \ {k})

\* the granules in a rejection log of the object
Rejected ==
    Range(skipped_empty_granules) \cup Range(skipped_double_granules)
        \cup UNION {Range(skipped_proj_granules[c]) : c \in DOMAIN skipped_proj_granules}

\* a run that has returned: every granule found is in the deduplicated
\* list or logged as a duplicate, every granule of the deduplicated list
\* is a record of the cube or in one rejection log, and no logged granule
\* is in the cube
ReturnedComplete ==
    (orchestrator \in Orchestrators /\ pc = "done") =>
        /\ Range(found_urls) = Range(granules) \cup Range(skipped_double_granules)
        /\ Len(granules) = RecordAxisLen(store) + Len(skipped_empty_granules)
                             + SumLen(skipped_proj_granules, DOMAIN skipped_proj_granules)
        /\ Len(self_urls) = 0
        /\ Rejected \cap Range(Records(store).url) = {}

\* C13: rejections never block the run.  Every run returns unless a fatal
\* error of the program ends it, and in a run that returns every
\* deduplicated granule has been normalized and counted once, whatever the
\* number of granules rejected before it: it is a record of the cube or in
\* its rejection log, and no rejected granule is in the cube.
C13_RejectionsNeverBlock ==
    /\ []ReturnedComplete
    /\ <>(pc = "done" \/ (pc = "error" /\ fatal \in FatalErrors))

\* a run in batches of one record has ended in combine_layers, on the
\* record that followed a rejected granule: the granule after it was never
\* normalized
C13_Witness ==
    /\ orchestrator \in Sequential
    /\ pc = "error"
    /\ fatal = "AttributeError"
    /\ NUM_GRANULES_TO_WRITE = 1
    /\ granules = <<UrlOtherProj, UrlCurrent, UrlOutside>>
    /\ pos = 2
    /\ skipped_proj_granules = (32629 :> <<UrlOtherProj>>)
    /\ skipped_empty_granules = <<>>

(***************************************************************************)
(* Runs over granules that are not on the grid or of the schema of the     *)
(* cube: a grid of another spacing along x or along y, the projection in   *)
(* UTM_Projection or in Polar_Stereographic, and no projection variable;   *)
(* next to them a granule of the cube and one of another projection.       *)
(***************************************************************************)
ForeignUrls == {UrlCurrent, UrlOtherProj, UrlCoarse, UrlTall, UrlUtm, UrlPolar, UrlNoProj}

InitForeign == InitFrom(ForeignUrls)

SpecForeign == InitForeign /\ [][Next]_vars

\* DataVars.UTM_PROJECTION, POLAR_STEREOGRAPHIC, MAPPING
ProjectionVars == {"UTM_Projection", "Polar_Stereographic", "mapping"}

\* the granules a normalization that raised was reading
Reading ==
    IF orchestrator \in Sequential
    THEN {granules[pos]}
    ELSE {granules[start + i] : i \in {j \in 1..num_tasks : results[j] = Pending}}

\* C14: the projection of a granule is taken from whichever of
\* UTM_Projection, Polar_Stereographic and mapping the granule carries: a
\* run ends with the fatal error of an unsupported projection only when a
\* granule it was normalizing has none of the three.
C14_ProjectionFromAnyLocation ==
    (orchestrator \in Orchestrators /\ pc = "error" /\ fatal = "unsupported projection")
        => \E u \in Reading : ProjectionVars \cap DOMAIN open_dataset(u).vars = {}

\* the run was given a granule with UTM_Projection alone and raised
C14_Witness ==
    /\ orchestrator \in Sequential
    /\ pc = "error"
    /\ fatal = "unsupported projection"
    /\ granules = <<UrlCurrent, UrlUtm>>
    /\ "UTM_Projection" \in DOMAIN open_dataset(granules[pos]).vars

(***************************************************************************)
(* Runs over granules of the cube that are not of one processing run:      *)
(* two parameter files, another time standard for the first or for the     *)
(* second image, another grid-mapping name in mapping, another grid        *)
(* mapping named by v; and a granule of another projection.                *)
(***************************************************************************)
MixedUrls == {UrlRunA, UrlRunB, UrlRunTai1, UrlRunTai2, UrlOtherName, UrlOtherGrid,
              UrlOtherProj}

InitMixed == InitFrom(MixedUrls)

SpecMixed == InitMixed /\ [][Next]_vars

\* the values of the records of a batch under f
ValuesOf(ds_list, f(_)) == {f(ds_list[i]) : i \in 1..Len(ds_list)}

\* the records of the batch that say what their processing run was
WithRun(ds_list) ==
    SelectSeq(ds_list, LAMBDA ds : "autoRIFT_parameter_file" \in DOMAIN ds.attrs)

\* the records of the batch do not agree on the grid mapping, on the
\* parameter file, or on the time standard of the first or of the second
\* image
Disagree(ds_list) ==
    \/ Cardinality(grid_mapping_values(ds_list)) > 1
    \/ Cardinality(ValuesOf(WithRun(ds_list),
                            LAMBDA ds : ds.attrs.autoRIFT_parameter_file)) > 1
    \/ Cardinality(ValuesOf(WithRun(ds_list),
                            LAMBDA ds : ds.vars.img_pair_info.attrs.time_standard_img1)) > 1
    \/ Cardinality(ValuesOf(WithRun(ds_list),
                            LAMBDA ds : ds.vars.img_pair_info.attrs.time_standard_img2)) > 1

\* a call of combine_layers on a batch whose records disagree raises a
\* fatal error of the program and leaves the store as it was
DisagreementStep ==
    (orchestrator \in Orchestrators /\ WritePending /\ Disagree(self_ds)) =>
        /\ pc' = "error"
        /\ fatal' \in FatalErrors
        /\ store' = store

\* C15: when combine_layers is called on a batch whose records disagree on
\* the grid-mapping name, on the parameter file or on a time standard, the
\* call raises a fatal error of the program, and the store is what it was
\* before the call.
C15_DisagreementIsFatal == [][DisagreementStep]_vars

\* a batch of two parameter files and one grid mapping was handed to
\* combine_layers: the call passed the check of the grid mapping and ended
\* on the AttributeError of line 1492, as on any batch
C15_Witness ==
    /\ orchestrator \in Orchestrators
    /\ pc = "error"
    /\ fatal = "AttributeError"
    /\ self_urls = <<UrlRunA, UrlRunB>>
    /\ Disagree(Batch)
    /\ Cardinality(grid_mapping_values(Batch)) = 1
    /\ "roi_valid_percentage" \in DOMAIN layers
    /\ ~store.exists

\* the distances between neighbouring values of a coordinate
Spacings(coord) == {Abs(coord[i] - coord[i + 1]) : i \in 1..(Len(coord) - 1)}

\* the grid of the record has the cell size of the cube along x and along y
OnCubeGrid(ds) == Spacings(ds.x) \cup Spacings(ds.y) \subseteq {CELL_SIZE}

\* C16: a granule of the target projection with valid data whose cell
\* spacing is not the cell size of the cube is a fatal error of the
\* normalizer, so no record of another spacing is ever accumulated; when the
\* error is raised the records pending in the accumulator are not written:
\* the store of a sequential run holds complete batches only.
C16_ForeignGridIsFatal ==
    orchestrator \in Orchestrators =>
        /\ \A i \in 1..Len(self_ds) : OnCubeGrid(self_ds[i])
        /\ (pc = "error" /\ fatal = "unexpected grid cell size"
               /\ orchestrator \in Sequential)
              => RecordAxisLen(store) % NUM_GRANULES_TO_WRITE = 0

\* a granule with cells of 240 m along x and 480 m along y was accepted:
\* its record is in the accumulator, next to a record of the grid of the cube
C16_Witness ==
    /\ orchestrator \in Orchestrators
    /\ pc \in {"check", "write"}
    /\ granules = <<UrlCurrent, UrlTall>>
    /\ self_urls = <<UrlCurrent, UrlTall>>
    /\ OnCubeGrid(self_ds[1])
    /\ ~OnCubeGrid(self_ds[2])

\* a task of the batch has not returned
TaskPending == \E i \in DOMAIN results : results[i] = Pending

\* the accumulator and the rejection logs change in the step
Accumulates ==
    <<self_dates, self_ds, self_urls, skipped_empty_granules, skipped_proj_granules>>'
        # <<self_dates, self_ds, self_urls, skipped_empty_granules, skipped_proj_granules>>

\* tasks are handed out in the step
Submits ==
    \E i \in DOMAIN results' :
        results'[i] = Pending /\ (i \notin DOMAIN results \/ results[i] # Pending)

\* a task returns in the step
TaskReturns ==
    \E i \in DOMAIN results :
        results[i] = Pending /\ i \in DOMAIN results' /\ results'[i] # Pending

\* a step of a parallel orchestrator or of one of its tasks keeps the barrier
BarrierKept ==
    orchestrator \in Parallel =>
        /\ (Accumulates /\ pc = "compute") => ~TaskPending
        /\ pc = "write" => ~TaskPending
        /\ store' # store => (pc = "write" /\ ~TaskPending)
        /\ Submits => /\ pc = "submit"
                      /\ ~TaskPending
                      /\ Len(self_ds) = 0
                      /\ Processed = start
                      /\ \A i \in DOMAIN results' : results'[i] = Pending
        /\ TaskReturns => (~Accumulates /\ store' = store)

\* C17: the barrier between the batches of the parallel orchestrators.  A
\* result is accumulated only when no task of the batch is pending; a write
\* starts only then, and the store changes in the write step of the
\* orchestrator alone; tasks are handed out only when no task is pending,
\* the accumulator is empty and every earlier batch has gone through its
\* write; a step of a task changes neither the accumulator nor the store.
C17_BatchBarrier == [][BarrierKept]_vars

\* the second task of a batch has returned before the first: nothing of the
\* batch is accumulated
C17_Witness ==
    /\ orchestrator \in Parallel
    /\ pc = "compute"
    /\ num_tasks = 2
    /\ results[1] = Pending
    /\ results[2] # Pending
    /\ Len(self_ds) = 0

\* C18: in the parallel orchestrators, whatever the order in which the tasks
\* of a batch return, the records of the cube followed by the records of the
\* accumulator are the accepted granules of the deduplicated list handed to
\* add_layer so far, in the order of the list.
C18_SubmissionOrder ==
    (orchestrator \in Parallel /\ pc \in {"submit", "compute", "write", "done"}) =>
        LET accepted == AcceptedSeq(SubSeq(granules, 1, Processed)) IN
        /\ Records(store).url \o self_urls = accepted
        /\ Records(store).mid_date \o self_dates = DatesOf(accepted)

\* a batch of two records has been accumulated and waits for its write
C18_Witness ==
    /\ orchestrator \in Parallel
    /\ pc = "write"
    /\ num_tasks = 2
    /\ self_urls = <<granules[start + 1], granules[start + 2]>>
    /\ granules[start + 1] # granules[start + 2]

\* C19: when a run that accepted a granule is over and no fatal error of
\* the program ended it, the cube exists and the rejection lists in its
\* attributes are the rejection logs of the run: every granule rejected as
\* empty, as of another projection or as a duplicate is in
\* skipped_empty_data, skipped_wrong_projection or
\* skipped_duplicate_middle_date, whenever it was rejected.
C19_RejectionListsComplete ==
    (orchestrator \in Orchestrators /\ EndsWithoutFatal /\ AcceptedSeq(granules) # <<>>) =>
        /\ store.exists
        /\ store.attrs.skipped_empty_data = skipped_empty_granules
        /\ store.attrs.skipped_wrong_projection = json_dumps_dict(skipped_proj_granules)
        /\ store.attrs.skipped_duplicate_middle_date = skipped_double_granules

\* a run that rejected a granule of another projection has ended in
\* combine_layers: the granule is in the log of the object and there is no
\* cube to hold it
C19_Witness ==
    /\ orchestrator \in Orchestrators
    /\ pc = "error"
    /\ fatal = "AttributeError"
    /\ granules = <<UrlOtherProj, UrlCurrent>>
    /\ skipped_proj_granules = (32629 :> <<UrlOtherProj>>)
    /\ ~store.exists

\* s is the beginning of t
IsPrefix(s, t) == Len(s) <= Len(t) /\ SubSeq(t, 1, Len(s)) = s

\* a rejection log never loses a granule in the step
LogsKept ==
    /\ IsPrefix(skipped_empty_granules, skipped_empty_granules')
    /\ skipped_double_granules' = skipped_double_granules
    /\ DOMAIN skipped_proj_granules \subseteq DOMAIN skipped_proj_granules'
    /\ \A code \in DOMAIN skipped_proj_granules :
           IsPrefix(skipped_proj_granules[code], skipped_proj_granules'[code])

\* a call of combine_layers on a batch of one record or more that no fatal
\* error of the program ends, or a step of a run past its prologue
ClearsAccumulatorOnly ==
    orchestrator \in Orchestrators =>
        /\ (WritePending /\ ~(pc' = "error" /\ fatal' \in FatalErrors)) =>
              /\ Len(self_dates') = 0 /\ Len(self_ds') = 0 /\ Len(self_urls') = 0
              /\ UNCHANGED <<skipped_empty_granules, skipped_proj_granules,
                             skipped_double_granules>>
        /\ pc # "start" => LogsKept

\* C20: a call of combine_layers on one record or more that no fatal error
\* of the program ends leaves dates, ds and urls empty and the three
\* rejection logs as they were; no step of a run after its prologue (where
\* clear is called) takes a granule out of a rejection log.
C20_ClearsAccumulatorOnly == [][ClearsAccumulatorOnly]_vars

\* a call of combine_layers on one record has ended at line 1492: the
\* record is in dates, ds and urls, its dataset without the spatial
\* variables, and the rejected granule is in its log
C20_Witness ==
    /\ orchestrator \in Orchestrators
    /\ pc = "error"
    /\ fatal = "AttributeError"
    /\ Len(self_dates) = 1 /\ Len(self_ds) = 1 /\ Len(self_urls) = 1
    /\ "v" \notin DOMAIN self_ds[1].vars
    /\ "img_pair_info" \in DOMAIN self_ds[1].vars
    /\ Len(skipped_empty_granules) = 1

(***************************************************************************)
(* Runs whose destination, a local directory, holds the cube of an earlier *)
(* run: one record, of the granule UrlUpdated.                             *)
(***************************************************************************)
OldStore ==
    [exists |-> TRUE,
     vars |-> [mid_date |-> RecordVar(<<read_dataset(UrlUpdated).mid_date>>, EmptyDict),
               original_url_path |-> RecordVar(<<UrlUpdated>>, EmptyDict)],
     attrs |-> EmptyDict,
     encoding |-> {"mid_date"}]

OverwriteUrls == {UrlCurrent, UrlOtherProj, UrlOutside}

InitOverwrite == InitRun(SeqsUpTo(OverwriteUrls, MaxGranules), {OldStore})

SpecOverwrite == InitOverwrite /\ [][Next]_vars

\* C21: the store that the destination held is deleted in the prologue of
\* the run, before any write: from then on the destination holds no record
\* of the earlier run; and when the run is over and no fatal error of the
\* program ended it, the destination holds a store again, with the records
\* of the run alone.
C21_StoreRecreated ==
    (orchestrator \in Orchestrators /\ pc # "start") =>
        /\ Range(Records(store).url) \subseteq Range(granules)
        /\ EndsWithoutFatal =>
              /\ store.exists
              /\ Records(store).url = AcceptedSeq(granules)

\* a run over an accepted granule has deleted the store of the earlier run
\* and ended in combine_layers: the destination holds no store
C21_Witness ==
    /\ orchestrator \in Orchestrators
    /\ pc = "error"
    /\ fatal = "AttributeError"
    /\ AcceptedSeq(granules) = <<UrlCurrent>>
    /\ self_urls = <<UrlCurrent>>
    /\ ~store.exists

(***************************************************************************)
(* More properties of skip_duplicate_granules (checked under SpecDedup)    *)
(***************************************************************************)
\* the physical-pair keys of the list, each once, in the order in which
\* they are first seen
RECURSIVE FirstSeenKeys(_)
FirstSeenKeys(urls) ==
    IF urls = <<>> THEN <<>>
    ELSE LET before == FirstSeenKeys(SubSeq(urls, 1, Len(urls) - 1))
             key == PairKey(urls[Len(urls)]) IN
         IF key \in Range(before) THEN before ELSE Append(before, key)

\* C22: the list skip_duplicate_granules returns is, group after group in
\* the order in which the keys of the physical pairs are first seen in the
\* input, the identifiers of the group that survive, in the order in which
\* they were kept (the order of the input).
C22_GroupsInFirstSeenOrder ==
    dpc = "done" =>
        LET keys == FirstSeenKeys(found_urls) IN
        granules =
            Concat([k \in 1..Len(keys) |->
                SelectSeq(found_urls,
                          LAMBDA u : PairKey(u) = keys[k] /\ u \in Range(granules))])

\* two identifiers of one pair were kept around an identifier of another
\* pair: the returned list is not in the order of the input
C22_Witness ==
    /\ FirstCallDone
    /\ Len(granules) = 3
    /\ PairKey(found_urls[1]) = PairKey(found_urls[3])
    /\ PairKey(found_urls[1]) # PairKey(found_urls[2])
    /\ granules = <<found_urls[1], found_urls[3], found_urls[2]>>

\* C23: in every state of a run of any orchestrator the accumulator holds at
\* most NUM_GRANULES_TO_WRITE records (as many dates and urls as datasets);
\* in the sequential orchestrators it holds fewer whenever the next granule
\* is about to be read, the loop is over, or the run is over and no fatal
\* error of the program ended it: a full buffer was flushed by the step
\* that followed its last add_layer.
C23_BufferBounded ==
    orchestrator \in Orchestrators =>
        /\ Len(self_ds) <= NUM_GRANULES_TO_WRITE
        /\ Len(self_dates) = Len(self_ds)
        /\ Len(self_urls) = Len(self_ds)
        /\ (orchestrator \in Sequential
               /\ (pc \in {"read", "final", "done"} \/ EndsWithoutFatal))
              => Len(self_ds) < NUM_GRANULES_TO_WRITE

\* the buffer of a sequential run held two records, the batch size, and was
\* handed to combine_layers, which ended at line 1492: the buffer is still
\* full
C23_Witness ==
    /\ orchestrator \in Sequential
    /\ pc = "error"
    /\ fatal = "AttributeError"
    /\ NUM_GRANULES_TO_WRITE = 2
    /\ Len(self_ds) = NUM_GRANULES_TO_WRITE
    /\ Len(self_urls) = NUM_GRANULES_TO_WRITE

\* the store is extended at its end in the step, by the records of the
\* batch when the step is a call of combine_layers that no fatal error of
\* the program ends, and no identifier is twice among the records of the
\* store and of the accumulator
AppendOnlyStep ==
    (orchestrator \in Orchestrators /\ pc # "start") =>
        /\ IsPrefix(Records(store).url, Records(store').url)
        /\ IsPrefix(Records(store).mid_date, Records(store').mid_date)
        /\ Injective(Records(store').url \o self_urls')
        /\ (WritePending /\ ~(pc' = "error" /\ fatal' \in FatalErrors)) =>
               Records(store').url = Records(store).url \o self_urls

\* C24: within a run the cube is append-only and holds every accepted
\* granule once: a step of the run leaves the records the store held at the
\* beginning of the records it holds afterwards, a write adds the records of
\* its batch at the end, in the order of the writes, and no identifier is
\* the original_url_path of two records.
C24_AppendOnlyOnce == [][AppendOnlyStep]_vars

\* one identifier is the original_url_path of the two records of a batch
\* that was handed to combine_layers
C24_Witness ==
    /\ orchestrator \in Orchestrators
    /\ pc = "error"
    /\ fatal = "AttributeError"
    /\ granules = <<UrlCurrent, UrlCurrent>>
    /\ self_urls = <<UrlCurrent, UrlCurrent>>
    /\ layers["original_url_path"].data = <<UrlCurrent, UrlCurrent>>

\* ---------------------------------------------------------------------
\* process_v_attributes: the legacy attribute stable_rmse
\* ---------------------------------------------------------------------

\* the error variables other than <var>_error
OtherErrorPrefixes == {"error_mask", "error_modeled", "error_slow"}

\* the per-pair scalar attributes that process_v_attributes promotes
PromotedAttrs(var_name) ==
    {Join(var_name, p) : p \in {"error"} \cup OtherErrorPrefixes}
        \cup {"stable_rmse", "stable_count", "stable_count_slow",
              "stable_count_mask", "flag_stable_shift"}

\* C25: in the layers of a batch, built up to line 1492, the promoted
\* attributes are stripped from vx and vy, and the stable_rmse of a legacy
\* record feeds <var>_error only: where the record has no <var>_error_mask,
\* <var>_error_modeled or <var>_error_slow attribute, that variable holds
\* the missing-value marker for the record.
C25_PromotedOnce ==
    (orchestrator = "combine_layers" /\ pc = "unified" /\ fatal = "AttributeError") =>
        \A var_name \in _stable_rmse_vars :
            /\ PromotedAttrs(var_name) \cap DOMAIN layers[var_name].attrs = {}
            /\ \A i \in 1..Len(self_urls) : \A p \in OtherErrorPrefixes :
                (/\ HasAttr(Batch[i], var_name, "stable_rmse")
                 /\ ~HasAttr(Batch[i], var_name, Join(var_name, p)))
                    => layers[Join(var_name, p)].data[i] = MISSING_VALUE

\* the layers of a batch whose legacy record has its stable_rmse in
\* vx_error_mask
C25_Witness ==
    /\ orchestrator = "combine_layers"
    /\ pc = "unified"
    /\ fatal = "AttributeError"
    /\ \E i \in 1..Len(self_urls) :
        /\ HasAttr(Batch[i], "vx", "stable_rmse")
        /\ ~HasAttr(Batch[i], "vx", "vx_error_mask")
        /\ layers["vx_error"].data[i] = Batch[i].vars.vx.attrs.stable_rmse
        /\ layers["vx_error_mask"].data[i] = Batch[i].vars.vx.attrs.stable_rmse

\* ---------------------------------------------------------------------
\* The sequential and the parallel orchestrator on one list
\* ---------------------------------------------------------------------

\* how a run ends: returned or raised, the records of the cube and the
\* rejection logs of the object
RunEnd(error, st, acc) ==
    [returned |-> error = "",
     records |-> Records(st),
     skipped_empty_granules |-> acc.skipped_empty_granules,
     skipped_proj_granules |-> acc.skipped_proj_granules]

\* create / create_from_local_no_api from the granule at position at on:
\* the ends of the loop of lines 456-472 (577-596)
RECURSIVE SequentialEnds(_, _, _, _, _, _, _)
SequentialEnds(urls, size, skipped_double, at, acc, st, first) ==
    IF at > Len(urls)
    THEN IF Len(acc.urls) > 0
         THEN {RunEnd(out.error, out.store, out.acc) :
                  out \in combine_layers(acc, skipped_double, st, first)}
         ELSE {RunEnd("", st, acc)}
    ELSE Bind(read_dataset(urls[at]), LAMBDA res :
         IF res.error # "" THEN {RunEnd(res.error, st, acc)}
         ELSE Bind(add_layer(acc, res), LAMBDA nxt :
              IF Len(nxt.urls) = size
              THEN UNION {IF out.error # ""
                          THEN {RunEnd(out.error, out.store, out.acc)}
                          ELSE SequentialEnds(urls, size, skipped_double, at + 1,
                                              out.acc, out.store, FALSE) :
                             out \in combine_layers(nxt, skipped_double, st, first)}
              ELSE SequentialEnds(urls, size, skipped_double, at + 1, nxt, st, first)))

\* create_parallel / create_from_local_parallel_no_api from the offset
\* from on: the ends of the loop of lines 509-545 (627-655)
RECURSIVE ParallelEnds(_, _, _, _, _, _, _)
ParallelEnds(urls, size, skipped_double, from, acc, st, first) ==
    IF Len(urls) - from <= 0 THEN {RunEnd("", st, acc)}
    ELSE Bind(num_tasks_of(Len(urls) - from, size), LAMBDA tasks :
         Bind([i \in 1..tasks |-> read_dataset(urls[from + i])], LAMBDA rs :
         IF \E i \in 1..tasks : rs[i].error # ""
         THEN {RunEnd(rs[i].error, st, acc) : i \in {j \in 1..tasks : rs[j].error # ""}}
         ELSE UNION {IF out.error # ""
                     THEN {RunEnd(out.error, out.store, out.acc)}
                     ELSE ParallelEnds(urls, size, skipped_double, from + tasks,
                                       out.acc, out.store,
                                       IF from = 0 THEN FALSE ELSE first) :
                        out \in combine_layers(AddLayers(acc, rs), skipped_double, st, first)}))

\* the ends of the orchestrators of one kind on the deduplicated list of the run
EndsOf(kind) ==
    IF kind \in Sequential
    THEN SequentialEnds(granules, NUM_GRANULES_TO_WRITE, skipped_double_granules,
                        1, NoAcc, NoStore, TRUE)
    ELSE ParallelEnds(granules, NUM_GRANULES_TO_WRITE, skipped_double_granules,
                      0, NoAcc, NoStore, TRUE)

\* the end the run has reached
ThisEnd == RunEnd(fatal, store, Acc)

\* C26: on the same deduplicated list and with the same batch size, a run
\* of the sequential orchestrators and a run of the parallel orchestrators
\* end alike: the end a run has reached, by a return or by an error, is an
\* end of the orchestrators of either kind, with the same sequence of
\* records in the cube and the same rejection lists.
C26_SameCubeEitherWay ==
    (orchestrator \in Orchestrators /\ pc \in {"done", "error"} /\ granules # <<>>) =>
        \A kind \in {"create", "create_parallel"} : ThisEnd \in EndsOf(kind)

\* create has ended in the combine_layers call that follows its loop, with
\* the three granules of the list normalized and two of them in the
\* rejection logs; the parallel orchestrator, cutting its batches by
\* candidates, ends in the call of its first batch with one rejection
C26_Witness ==
    /\ orchestrator = "create"
    /\ pc = "error"
    /\ fatal = "AttributeError"
    /\ NUM_GRANULES_TO_WRITE = 2
    /\ granules = <<UrlCurrent, UrlOtherProj, UrlOutside>>
    /\ skipped_empty_granules = <<UrlOutside>>
    /\ \A e \in EndsOf("create_parallel") :
        /\ ~e.returned
        /\ e.skipped_empty_granules = <<>>
        /\ e.skipped_proj_granules = (32629 :> <<UrlOtherProj>>)

\* ---------------------------------------------------------------------
\* skip_duplicate_granules: the kept lists
\* ---------------------------------------------------------------------

\* no identifier of the list with the key of u has a pair of processing
\* dates above the pair of u in lexicographic order
LexMaximal(u, urls) ==
    \A i \in 1..Len(urls) : PairKey(urls[i]) = PairKey(u) => ~LexNewer(urls[i], u)

\* C27: after every iteration of the loop of skip_duplicate_granules the
\* identifiers kept for one physical-pair key have the same pair of
\* processing dates, and they are the identifiers of the key handled so far
\* whose pair (first processing date, second processing date) is maximal in
\* lexicographic order; at the end they are those of the whole input.
C27_KeptAreLexMaximal ==
    (orchestrator = "skip_duplicate_granules" /\ dpc \in {"loop", "done"}) =>
        LET seen == SubSeq(found_urls, 1, url_idx - 1) IN
        /\ dpc = "done" => seen = found_urls
        /\ {keep_urls[k].id : k \in 1..Len(keep_urls)} = {PairKey(u) : u \in Range(seen)}
        /\ \A k \in 1..Len(keep_urls) :
            /\ \A a, b \in Range(keep_urls[k].urls) : SameDates(a, b)
            /\ keep_urls[k].urls =
                   SelectSeq(seen, LAMBDA u : PairKey(u) = keep_urls[k].id
                                              /\ LexMaximal(u, seen))

\* a call has returned with two identifiers of one pair kept, of the same
\* processing dates, after discarding an identifier whose second processing
\* date is newer and whose first is older
C27_Witness ==
    /\ FirstCallDone
    /\ Len(found_urls) = 3
    /\ Len(keep_urls) = 1
    /\ keep_urls[1].urls = <<found_urls[2], found_urls[3]>>
    /\ found_urls[2] # found_urls[3]
    /\ skipped_double_granules = <<found_urls[1]>>
    /\ Proc1(found_urls[1]) < Proc1(found_urls[2])
    /\ Proc2(found_urls[1]) > Proc2(found_urls[2])

\* the identifiers of s and of t are the same, each as many times
SameBag(s, t) ==
    /\ Len(s) = Len(t)
    /\ \A u \in Range(s) \cup Range(t) : Count(s, u) = Count(t, u)

\* one step of skip_duplicate_granules: after an iteration the identifiers
\* handled so far are the kept ones and the discarded ones, and the kept
\* lists of the other keys are as they were; the list returned and the
\* discarded ones are the input
PartitionStep ==
    /\ IsIterateStep =>
        /\ SameBag(CollectGranules(keep_urls') \o skipped_double_granules',
                   SubSeq(found_urls, 1, url_idx))
        /\ Len(keep_urls') >= Len(keep_urls)
        /\ \A k \in 1..Len(keep_urls) :
            keep_urls[k].id # granule_id_of(found_urls[url_idx])
                => keep_urls'[k] = keep_urls[k]
    /\ (dpc = "loop" /\ dpc' = "done") =>
        /\ SameBag(granules' \o skipped_double_granules', found_urls)
        /\ Len(granules') + Len(skipped_double_granules') = Len(found_urls)

\* C28: skip_duplicate_granules partitions its input: every identifier of
\* the input is in exactly one of the returned list and
\* skipped_double_granules, so their lengths add up to the length of the
\* input; and an iteration changes the kept list of the key of its
\* identifier only.
C28_PartitionsInput == [][PartitionStep]_vars

\* a call on three identifiers of two pairs has returned two and discarded
\* one; the kept list of the second pair was left alone while the first
\* pair replaced its identifier
C28_Witness ==
    /\ FirstCallDone
    /\ Len(found_urls) = 3
    /\ Len(keep_urls) = 2
    /\ keep_urls[1].urls = <<found_urls[3]>>
    /\ keep_urls[2].urls = <<found_urls[2]>>
    /\ skipped_double_granules = <<found_urls[1]>>
    /\ granules = <<found_urls[3], found_urls[2]>>

\* ---------------------------------------------------------------------
\* num_urls_from_api, the denominator of format_stats
\* ---------------------------------------------------------------------

\* C29: when an orchestrator returns after processing a non-empty input,
\* num_urls_from_api is the number of candidates before deduplication, and
\* is the number of records of the cube plus the lengths of
\* skipped_empty_granules, of the lists of skipped_proj_granules and of
\* skipped_double_granules.
C29_DenominatorIsCandidates ==
    (orchestrator \in Orchestrators /\ pc = "done" /\ found_urls # <<>>) =>
        /\ num_urls_from_api = Len(found_urls)
        /\ num_urls_from_api =
               RecordAxisLen(store) + Len(skipped_empty_granules)
                 + SumLen(skipped_proj_granules, DOMAIN skipped_proj_granules)
                 + Len(skipped_double_granules)

\* create_from_local_parallel_no_api has returned after discarding a
\* duplicate and rejecting the granule that superseded it:
\* num_urls_from_api is the length of the deduplicated list
C29_Witness ==
    /\ orchestrator = "create_from_local_parallel_no_api"
    /\ pc = "done"
    /\ Len(found_urls) = 2
    /\ Len(skipped_double_granules) = 1
    /\ SumLen(skipped_proj_granules, DOMAIN skipped_proj_granules) = 1
    /\ num_urls_from_api = 1

\* ---------------------------------------------------------------------
\* The batch loop of the parallel orchestrators
\* ---------------------------------------------------------------------

\* the least number of batches of size granules that hold n granules
CeilDiv(n, size) == (n + size - 1) \div size

\* the consecutive slices of size granules of a list of n granules, the
\* last one shorter when size does not divide n
Slices(n, size) ==
    [k \in 1..CeilDiv(n, size) |->
        [start |-> (k - 1) * size,
         num_tasks |-> IF n - (k - 1) * size > size THEN size ELSE n - (k - 1) * size]]

\* one step of the batch loop: iteration k submits slice k of the list, a
\* write moves to the start of the next slice, and the loop is left when
\* the last slice was written
BatchLoopStep ==
    orchestrator \in Parallel =>
    LET slices == Slices(Len(granules), NUM_GRANULES_TO_WRITE) IN
    /\ (pc = "submit" /\ pc' = "compute") =>
        /\ start % NUM_GRANULES_TO_WRITE = 0
        /\ (start \div NUM_GRANULES_TO_WRITE) + 1 \in 1..Len(slices)
        /\ slices[(start \div NUM_GRANULES_TO_WRITE) + 1] =
               [start |-> start, num_tasks |-> num_tasks']
        /\ num_tasks' >= 1
        /\ start + num_tasks' <= Len(granules)
        /\ num_to_process = Len(granules) - start
    /\ (pc = "write" /\ pc' = "submit") => start' = start + num_tasks
    /\ (pc = "submit" /\ pc' = "done") =>
        /\ start = Len(granules)
        /\ start = slices[Len(slices)].start + slices[Len(slices)].num_tasks

\* C30: the batch loop of the parallel orchestrators ends for every
\* non-empty deduplicated list and every batch size: iteration k submits
\* the k-th consecutive slice of NUM_GRANULES_TO_WRITE granules (at least
\* one granule, the last slice possibly shorter), and unless a fatal error
\* of the program ends the run the loop is left after
\* ceil(n / NUM_GRANULES_TO_WRITE) iterations over disjoint slices that
\* cover the list once.
C30_BatchLoopTerminates ==
    /\ [][BatchLoopStep]_vars
    /\ (orchestrator \in Parallel /\ pc = "submit")
          ~> (pc = "done" \/ (pc = "error" /\ fatal \in FatalErrors))

\* a parallel run over three granules in batches of one has ended in the
\* combine_layers call of its second iteration, on the first accepted
\* granule: the third slice was never submitted
C30_Witness ==
    /\ orchestrator \in Parallel
    /\ pc = "error"
    /\ fatal = "AttributeError"
    /\ NUM_GRANULES_TO_WRITE = 1
    /\ Len(granules) = 3
    /\ CeilDiv(Len(granules), NUM_GRANULES_TO_WRITE) = 3
    /\ start = 1
    /\ num_tasks = 1
=============================================================================
